---- MODULE Spec2Model ----
(***************************************************************************)
(* A model of the PDN harvester worker of nexus-geonode:                   *)
(*   - the PostgREST client (nexus/utils.py),                              *)
(*   - the virtual, offset-addressable listing of the five remote          *)
(*     collections (PdnHarvesterWorker.list_resources and helpers),        *)
(*   - the composite resource identifier and its parsing,                  *)
(*   - the reconciliation of raw records into the local tables             *)
(*     (pdn/models.py) with Django's update_or_create, and the deletion   *)
(*     of local records,                                                   *)
(*   - get_resource and the descriptor of a document,                      *)
(*   - the titles of the brief resources and the date filters.             *)
(* Text is modelled as a sequence of one-character strings.                *)
(***************************************************************************)
EXTENDS Integers, Sequences, FiniteSets, TLC

VARIABLES
    \* --- worker configuration and remote service (listing) ---
    harvest,        \* [type -> BOOLEAN]: harvest_alerts, harvest_documents, ...
    page_size,      \* PostgRestClient.page_size
    remote,         \* [type -> Nat]: records the remote holds (as filtered by the type's params)
    remote_up,      \* TRUE when the remote answers requests with a success status
    remote_reachable, \* TRUE when a connection to the remote is made in time
    remote_text,    \* the text the remote's records hold in their naming fields
    filters,        \* the filter options the worker was constructed with
    op,             \* the last public method called on the worker
    offset,         \* the offset argument of the last list_resources call
    result,         \* what the last call returned
    requests,       \* the remote requests issued by the last call, in order
    raised,         \* the exception the last call let through to its caller, "" for none
    geonode_resource, \* [document id -> the catalog entry of the document, or None]
    pages,          \* the pages a caller paging through the listing has received
    \* --- composite identifier ---
    uid_type,       \* the resource type value a brief resource is built for
    uid_remote,     \* the 'id' of the raw record the brief resource is built from
    uid,            \* BriefRemoteResource.unique_identifier
    uid_parsed,     \* what get_resource / finalize_resource_deletion recover from uid
    \* --- local record store (reconciliation) ---
    store,          \* [type -> sequence of rows]: the tables Alert, Expert, News, Project
    log,            \* the operations performed on the store: type, raw record, outcome
    before,         \* the store as it was before the last operation
    \* --- concurrent workers on one harvestable resource ---
    target,         \* the harvestable resource the workers reconcile and delete
    workers,        \* [worker -> its position in finalize_resource_deletion,
                    \*            the record it fetched, the jobs it has started]
    pks             \* [table -> the primary keys of its rows], [table -> rows ever inserted]

list_vars  == <<harvest, page_size, remote, remote_up, remote_reachable, remote_text,
               filters, op, offset, result, requests, raised, geonode_resource,
               pages>>
id_vars    == <<uid_type, uid_remote, uid, uid_parsed>>
store_vars == <<store, log, before, target, workers, pks>>
vars       == <<list_vars, id_vars, store_vars>>

-----------------------------------------------------------------------------
(* Bounds of the model *)

MaxCount == 2        \* records per remote collection: 0 .. MaxCount
MaxPageSize == 3     \* page sizes: 1 .. MaxPageSize
MaxRemoteId == 12    \* 'id' of a raw record: -MaxRemoteId .. MaxRemoteId
MaxOps == 2          \* operations performed on the local record store
MaxUuid == 3         \* uuid.uuid4() draws from 1 .. MaxUuid
MaxWorkers == 2      \* workers that act on one harvestable resource at a time
MaxJobs == 3         \* reconciliations and deletions the workers start in all

-----------------------------------------------------------------------------
(* Generic helpers: Python list and str primitives *)

Min(a, b) == IF a < b THEN a ELSE b
Max(a, b) == IF a > b THEN a ELSE b

\* Python's  seq[:n]
PySliceTo(seq, n) ==
    IF n >= 0 THEN SubSeq(seq, 1, Min(n, Len(seq)))
              ELSE SubSeq(seq, 1, Max(Len(seq) + n, 0))

RECURSIVE SumSeq(_)
SumSeq(seq) == IF seq = <<>> THEN 0 ELSE Head(seq) + SumSeq(Tail(seq))

RECURSIVE Concat(_)
Concat(seqs) == IF seqs = <<>> THEN <<>> ELSE Head(seqs) \o Concat(Tail(seqs))

-----------------------------------------------------------------------------
(* PdnResourceType: the values of the enumeration, in declaration order,   *)
(* which is the order list_resources checks them in.                       *)

ALERT        == <<"a","l","e","r","t">>
DOCUMENT     == <<"d","o","c","u","m","e","n","t">>
EXPERT       == <<"e","x","p","e","r","t","s">>
NEWS_ARTICLE == <<"n","e","w","s">>
PROJECT      == <<"p","r","o","j","e","c","t">>

PdnResourceType == <<ALERT, DOCUMENT, EXPERT, NEWS_ARTICLE, PROJECT>>
ResourceTypes == {PdnResourceType[i] : i \in 1..Len(PdnResourceType)}

_UNIQUE_ID_SEPARATOR == "-"

-----------------------------------------------------------------------------
(* Text of integers and the composite identifier *)

Digit(d) == CASE d = 0 -> "0" [] d = 1 -> "1" [] d = 2 -> "2" [] d = 3 -> "3"
              [] d = 4 -> "4" [] d = 5 -> "5" [] d = 6 -> "6" [] d = 7 -> "7"
              [] d = 8 -> "8" [] d = 9 -> "9"

DigitValue(c) == CASE c = "0" -> 0 [] c = "1" -> 1 [] c = "2" -> 2 [] c = "3" -> 3
                   [] c = "4" -> 4 [] c = "5" -> 5 [] c = "6" -> 6 [] c = "7" -> 7
                   [] c = "8" -> 8 [] c = "9" -> 9

IsDigit(c) == c \in {"0","1","2","3","4","5","6","7","8","9"}

RECURSIVE StrNat(_)
StrNat(n) == IF n < 10 THEN <<Digit(n)>> ELSE StrNat(n \div 10) \o <<Digit(n % 10)>>

\* Python's str(n) / f"{n}" of an int
PyStr(n) == IF n < 0 THEN <<"-">> \o StrNat(-n) ELSE StrNat(n)

\* f"{resource_type.value}{self._UNIQUE_ID_SEPARATOR}{record['id']}"
MakeUniqueIdentifier(type, id) == type \o <<_UNIQUE_ID_SEPARATOR>> \o PyStr(id)

\* Index of the last occurrence of a character in a text, 0 when there is none.
LastIndexOf(text, sep) ==
    LET at == {i \in 1..Len(text) : text[i] = sep}
    IN IF at = {} THEN 0 ELSE CHOOSE i \in at : \A j \in at : j <= i

\* A split on the first occurrence of the separator (Python's str.partition).
partition(text, sep) ==
    LET at == {i \in 1..Len(text) : text[i] = sep}
        i == IF at = {} THEN 0 ELSE CHOOSE k \in at : \A j \in at : k <= j
    IN IF i = 0 THEN <<text, <<>>, <<>>>>
       ELSE <<SubSeq(text, 1, i - 1), <<sep>>, SubSeq(text, i + 1, Len(text))>>

\* Python's str.rpartition: (head, separator, tail) around the last occurrence.
rpartition(text, sep) ==
    LET i == LastIndexOf(text, sep)
    IN IF i = 0 THEN <<<<>>, <<>>, text>>
       ELSE <<SubSeq(text, 1, i - 1), <<sep>>, SubSeq(text, i + 1, Len(text))>>

RECURSIVE NatOfDigits(_)
NatOfDigits(text) ==
    IF text = <<>> THEN 0
    ELSE 10 * NatOfDigits(SubSeq(text, 1, Len(text) - 1)) + DigitValue(text[Len(text)])

AllDigits(text) == text # <<>> /\ \A i \in 1..Len(text) : IsDigit(text[i])

\* Python's int(text): the number, or a ValueError
PyInt(text) ==
    IF AllDigits(text) THEN [ok |-> TRUE, value |-> NatOfDigits(text)]
    ELSE IF Len(text) >= 2 /\ text[1] = "-" /\ AllDigits(Tail(text))
    THEN [ok |-> TRUE, value |-> 0 - NatOfDigits(Tail(text))]
    ELSE [ok |-> FALSE, value |-> "ValueError"]

\* get_resource keeps the head of the split instead of its tail.
get_resource_remote_id_head(unique_identifier) ==
    rpartition(unique_identifier, _UNIQUE_ID_SEPARATOR)[1]

\* get_resource: unique_identifier.rpartition(self._UNIQUE_ID_SEPARATOR)[-1]
get_resource_remote_id(unique_identifier) ==
    rpartition(unique_identifier, _UNIQUE_ID_SEPARATOR)[3]

\* finalize_resource_deletion splits on the first separator.
finalize_resource_deletion_remote_id_first(unique_identifier) ==
    PyInt(partition(unique_identifier, _UNIQUE_ID_SEPARATOR)[3])

\* finalize_resource_deletion:
\*   int(unique_identifier.rpartition(self._UNIQUE_ID_SEPARATOR)[-1])
finalize_resource_deletion_remote_id(unique_identifier) ==
    PyInt(rpartition(unique_identifier, _UNIQUE_ID_SEPARATOR)[3])

-----------------------------------------------------------------------------
(* Values of raw records and of table columns.  A JSON / Python value is a *)
(* record tagged with its type, so that None compares with every value.    *)

None == [t |-> "NoneType"]
StrValue(text) == [t |-> "str", v |-> text]
IntValue(n) == [t |-> "int", v |-> n]
BoolValue(b) == [t |-> "bool", v |-> b]
DateTimeValue(d) == [t |-> "datetime", v |-> d]

\* Python's truth value of a value
Truthy(x) ==
    CASE x.t = "NoneType" -> FALSE
      [] x.t = "str" -> x.v # ""
      [] x.t = "int" -> x.v # 0
      [] x.t = "bool" -> x.v
      [] OTHER -> TRUE

\* Python's  x or y
PyOr(x, y) == IF Truthy(x) THEN x ELSE y

\* Python's  raw_record.get(key, default)
DictGet(raw_record, key, default) ==
    IF key \in DOMAIN raw_record THEN raw_record[key] ELSE default

\* The date-time texts the model knows, with what dateutil reads in them.
\* utcoffset is in minutes east of UTC.
ParseTable ==
    [text \in {"2024-01-02T00:00:00Z", "2024-03-04T05:06:07Z",
               "2024-01-01T00:00:00+00:00", "2024-03-04T07:06:07.5+02:00",
               "2024-06-15T22:15:00-03:00"} |->
        CASE text = "2024-01-02T00:00:00Z" ->
               [year |-> 2024, month |-> 1, day |-> 2, hour |-> 0, minute |-> 0,
                second |-> 0, microsecond |-> 0, utcoffset |-> 0]
          [] text = "2024-03-04T05:06:07Z" ->
               [year |-> 2024, month |-> 3, day |-> 4, hour |-> 5, minute |-> 6,
                second |-> 7, microsecond |-> 0, utcoffset |-> 0]
          [] text = "2024-01-01T00:00:00+00:00" ->
               [year |-> 2024, month |-> 1, day |-> 1, hour |-> 0, minute |-> 0,
                second |-> 0, microsecond |-> 0, utcoffset |-> 0]
          [] text = "2024-03-04T07:06:07.5+02:00" ->
               [year |-> 2024, month |-> 3, day |-> 4, hour |-> 7, minute |-> 6,
                second |-> 7, microsecond |-> 500000, utcoffset |-> 120]
          [] text = "2024-06-15T22:15:00-03:00" ->
               [year |-> 2024, month |-> 6, day |-> 15, hour |-> 22, minute |-> 15,
                second |-> 0, microsecond |-> 0, utcoffset |-> 0 - 180]]

\* dateutil.parser.parse: a datetime, or the exception it raises
dateutil_parse(value) ==
    IF value.t # "str" THEN [raised |-> "TypeError"]
    ELSE IF value.v \in DOMAIN ParseTable
    THEN [raised |-> "", value |-> DateTimeValue(ParseTable[value.v])]
    ELSE [raised |-> "ParserError"]

-----------------------------------------------------------------------------
(* PdnHarvesterWorker: the filters of the alerts and of the news *)

\* The filter options of __init__ with the default of each.
NoFilters ==
    [alerts_start_date_filter |-> None, alerts_end_date_filter |-> None,
     news_start_date_filter |-> None, news_end_date_filter |-> None,
     document_publication_day_filter |-> None,
     document_publication_month_filter |-> None,
     document_publication_year_filter |-> None,
     project_active_filter |-> None]

\* datetime.astimezone(datetime.timezone.utc) of an aware datetime (for a
\* day that is neither the first nor the last of its month)
astimezone_utc(dt) ==
    LET minutes == dt.hour * 60 + dt.minute - dt.utcoffset
        carry == IF minutes < 0 THEN 0 - 1 ELSE IF minutes >= 1440 THEN 1 ELSE 0
        of_day == (minutes + 1440) % 1440
    IN [dt EXCEPT !.day = dt.day + carry, !.hour = of_day \div 60,
                  !.minute = of_day % 60, !.utcoffset = 0]

\* datetime.replace(microsecond=0)
replace_microsecond_0(dt) == [dt EXCEPT !.microsecond = 0]

\* A number in decimal, filled with zeros to a width.
RECURSIVE ZeroPad(_, _)
ZeroPad(digits, width) ==
    IF Len(digits) >= width THEN digits ELSE ZeroPad(<<"0">> \o digits, width)

\* datetime.isoformat() of an aware datetime
isoformat(dt) ==
    LET sign == IF dt.utcoffset < 0 THEN "-" ELSE "+"
        off == IF dt.utcoffset < 0 THEN 0 - dt.utcoffset ELSE dt.utcoffset
    IN ZeroPad(StrNat(dt.year), 4) \o <<"-">> \o ZeroPad(StrNat(dt.month), 2)
       \o <<"-">> \o ZeroPad(StrNat(dt.day), 2) \o <<"T">>
       \o ZeroPad(StrNat(dt.hour), 2) \o <<":">> \o ZeroPad(StrNat(dt.minute), 2)
       \o <<":">> \o ZeroPad(StrNat(dt.second), 2)
       \o (IF dt.microsecond = 0 THEN <<>>
           ELSE <<".">> \o ZeroPad(StrNat(dt.microsecond), 6))
       \o <<sign>> \o ZeroPad(StrNat(off \div 60), 2) \o <<":">>
       \o ZeroPad(StrNat(off % 60), 2)

\* dateutil.parser.parse(value).astimezone(utc).replace(microsecond=0)
\*     .isoformat().split('+')[0] + 'Z'
FilterDate(value) ==
    LET parsed == dateutil_parse(value)
    IN IF parsed.raised # "" THEN [raised |-> parsed.raised]
       ELSE [raised |-> "",
             text |-> partition(isoformat(replace_microsecond_0(
                                    astimezone_utc(parsed.value.v))), "+")[1]
                      \o <<"Z">>]

\* The params of a date range on a field: the body the two builders share.
DateRangeParams(field, start_filter, end_filter) ==
    LET start_date == IF start_filter # None THEN FilterDate(start_filter)
                      ELSE [raised |-> "", text |-> <<>>]
        end_date == IF end_filter # None THEN FilterDate(end_filter)
                    ELSE [raised |-> "", text |-> <<>>]
        name == IF field = "date" THEN <<"d","a","t","e">>
                ELSE <<"d","a","t","e","r","e","c","i","e","v","e","d">>
    IN IF start_date.raised # "" THEN [raised |-> start_date.raised]
       ELSE IF end_date.raised # "" THEN [raised |-> end_date.raised]
       ELSE IF start_date.text # <<>> /\ end_date.text # <<>>
       THEN [raised |-> "",
             params |-> [k \in {"and"} |->
                 <<"(">> \o name \o <<".","g","t","e",".">> \o start_date.text \o <<",">>
                 \o name \o <<".","l","t","e",".">> \o end_date.text \o <<")">>]]
       ELSE IF start_date.text # <<>>
       THEN [raised |-> "",
             params |-> [k \in {field} |-> <<"g","t","e",".">> \o start_date.text]]
       ELSE IF end_date.text # <<>>
       THEN [raised |-> "",
             params |-> [k \in {field} |-> <<"l","t","e",".">> \o end_date.text]]
       ELSE [raised |-> "", params |-> [k \in {} |-> <<>>]]

\* A builder that leaves the end date out.
_get_news_article_params_start_only ==
    DateRangeParams("date", filters.news_start_date_filter, None)

_get_news_article_params ==
    DateRangeParams("date", filters.news_start_date_filter,
                    filters.news_end_date_filter)

_get_alert_params ==
    DateRangeParams("daterecieved", filters.alerts_start_date_filter,
                    filters.alerts_end_date_filter)

\* Python's str(b) of a bool, and str.lower() of that text
PyStrBool(b) == IF b THEN <<"T","r","u","e">> ELSE <<"F","a","l","s","e">>
lower(text) ==
    [i \in 1..Len(text) |-> CASE text[i] = "T" -> "t" [] text[i] = "F" -> "f"
                                [] OTHER -> text[i]]

\* _get_document_params
_get_document_params ==
    LET given == {name \in {"document_publication_day_filter",
                            "document_publication_month_filter",
                            "document_publication_year_filter"} :
                     filters[name] # None}
        key(name) == CASE name = "document_publication_day_filter" -> "publicationday"
                       [] name = "document_publication_month_filter" -> "publicationmonth"
                       [] name = "document_publication_year_filter" -> "publicationyear"
        name_of(k) == CHOOSE name \in given : key(name) = k
    IN [raised |-> "",
        params |-> [k \in {key(name) : name \in given} |->
                       <<"e","q",".">> \o PyStr(filters[name_of(k)].v)]]

\* _get_project_params
_get_project_params ==
    IF filters.project_active_filter # None
    THEN [raised |-> "",
          params |-> [k \in {"active"} |->
                         lower(<<"i","s",".">> \o PyStrBool(filters.project_active_filter.v))]]
    ELSE [raised |-> "", params |-> [k \in {} |-> <<>>]]

\* _get_expert_params
_get_expert_params == [raised |-> "", params |-> [k \in {} |-> <<>>]]

\* The params _get_num_available_resources_by_type passes with the count
\* request of a type.
CountParams(type) ==
    CASE type = ALERT -> _get_alert_params
      [] type = DOCUMENT -> _get_document_params
      [] type = EXPERT -> _get_expert_params
      [] type = NEWS_ARTICLE -> _get_news_article_params
      [] type = PROJECT -> _get_project_params

\* A listing that passes no params with its page requests.
PageParams_none(type) == [raised |-> "", params |-> [k \in {} |-> <<>>]]

\* The params_handler _list_brief_resources looks up for a type and calls
\* for its page request.
PageParams(type) ==
    CASE type = ALERT -> _get_alert_params
      [] type = DOCUMENT -> _get_document_params
      [] type = EXPERT -> _get_expert_params
      [] type = NEWS_ARTICLE -> _get_news_article_params
      [] type = PROJECT -> _get_project_params

-----------------------------------------------------------------------------
(* The remote PostgREST service and the client (nexus/utils.py) *)

\* A text of n characters, each telling its position.
Text(n) == [i \in 1..n |-> Digit(i % 10)]

\* The record at 1-based position i of the collection of a type: its id and
\* the fields its title is made of.
RemoteRecord(type, i) ==
    CASE type = ALERT ->
           [id |-> i, subject |-> remote_text,
            daterecieved |-> <<"2","0","2","4","-","0","1","-","0","2","T","0","0",":","0","0",":","0","0">>]
      [] type = DOCUMENT ->
           [id |-> i, country |-> remote_text, title |-> remote_text,
            series |-> <<>>, publicationyear |-> 2024]
      [] type = EXPERT -> [id |-> i, name |-> remote_text, title |-> remote_text]
      [] type = NEWS_ARTICLE -> [id |-> i, title |-> remote_text]
      [] type = PROJECT -> [id |-> i, acronym |-> <<"P","D","N">>, name |-> remote_text]

\* The service's answer to  GET <endpoint>  with  Range: lo-hi  (items, 0-based,
\* inclusive): the records of the collection at those positions.
RemoteRange(type, lo, hi) ==
    IF type \notin ResourceTypes THEN [status |-> "not_found", json |-> <<>>]
    ELSE IF remote_up /\ lo >= 0 /\ lo <= hi /\ lo < remote[type]
    THEN [status |-> "ok",
          json |-> [k \in 1..(Min(hi, remote[type] - 1) - lo + 1) |->
                        RemoteRecord(type, lo + k)]]
    ELSE IF remote_up /\ lo = 0 /\ lo <= hi
    THEN [status |-> "ok", json |-> <<>>]
    ELSE [status |-> "range_not_satisfiable", json |-> <<>>]

\* The service's answer to the count request (Range 0-0, Prefer count=exact).
RemoteCount(type) ==
    IF type \notin ResourceTypes THEN [status |-> "not_found", total |-> 0]
    ELSE IF remote_up THEN [status |-> "partial_content", total |-> remote[type]]
                 ELSE [status |-> "unavailable", total |-> 0]

\* PostgRestClient.get_total_records
get_total_records(type) ==
    LET response == RemoteCount(type)
    IN IF response.status = "partial_content" THEN response.total ELSE 0

\* A Range header that ends at page_size - 1 whatever the offset.
RangeHeader_fixed_end(off) == [first |-> off, last |-> page_size - 1]

\* get_paginated_resources: the header  "Range": f"{offset}-{limit}"  (unit
\* items, both ends included), with  limit = offset + (self.page_size - 1)
RangeHeader(off) ==
    LET limit == off + (page_size - 1)
    IN [first |-> off, last |-> limit]

\* A client whose range ends at page_size - 1 whatever the offset.
get_paginated_resources_fixed_end(type, off) ==
    LET limit == page_size - 1
        response == RemoteRange(type, off, limit)
    IN IF response.status = "ok" THEN response.json ELSE <<>>

\* A client that always asks for the first page.
get_paginated_resources_from_start(type, off) ==
    LET limit == page_size - 1
        response == RemoteRange(type, 0, limit)
    IN IF response.status = "ok" THEN response.json ELSE <<>>

\* PostgRestClient.get_paginated_resources
get_paginated_resources(type, off) ==
    LET range == RangeHeader(off)
        response == RemoteRange(type, range.first, range.last)
    IN IF response.status = "ok" THEN response.json ELSE <<>>

CountRequest(type) == [kind |-> "count", type |-> type, offset |-> 0]
PageRequest(type, off) == [kind |-> "page", type |-> type, offset |-> off]

-----------------------------------------------------------------------------
(* PdnHarvesterWorker: listing *)

\* A count that asks the remote for every type, harvested or not.
_get_num_available_resources_by_type_all ==
    [t \in ResourceTypes |-> get_total_records(t)]

\* _get_num_available_resources_by_type: the dictionary it returns
_get_num_available_resources_by_type ==
    [t \in ResourceTypes |-> IF harvest[t] THEN get_total_records(t) ELSE 0]

\* Count requests for every type, harvested or not.
NumAvailableRequests_all ==
    [i \in 1..Len(PdnResourceType) |-> CountRequest(PdnResourceType[i])]

\* the count requests it issues, in order
NumAvailableRequests ==
    Concat([i \in 1..Len(PdnResourceType) |->
              IF harvest[PdnResourceType[i]]
              THEN <<CountRequest(PdnResourceType[i])>> ELSE <<>>])

\* get_num_available_resources
get_num_available_resources ==
    SumSeq([i \in 1..Len(PdnResourceType) |->
              _get_num_available_resources_by_type[PdnResourceType[i]]])

\* Python's  sep.join(parts)
RECURSIVE PyJoin(_, _)
PyJoin(sep, parts) ==
    IF parts = <<>> THEN <<>>
    ELSE IF Len(parts) = 1 THEN parts[1]
    ELSE parts[1] \o sep \o PyJoin(sep, Tail(parts))

\* The title _list_brief_resources makes of a record of a type.
RecordTitle(type, record) ==
    CASE type = ALERT -> record.subject \o <<" ","-"," ">> \o record.daterecieved
      [] type = DOCUMENT ->
           LET title_parts == <<record.country, record.title, record.series,
                                PyStr(record.publicationyear)>>
           IN PyJoin(<<" ","-"," ">>, SelectSeq(title_parts, LAMBDA part : part # <<>>))
      [] type = EXPERT -> record.name \o <<" ","-"," ">> \o record.title
      [] type = NEWS_ARTICLE -> record.title
      [] type = PROJECT -> record.acronym \o <<" ","-"," ">> \o record.name

\* title[:255]
TITLE_MAX_LENGTH == 255

\* A brief resource that carries the whole title.
BriefRemoteResource_untruncated(type, record) ==
    [unique_identifier |-> MakeUniqueIdentifier(type, record.id),
     title |-> RecordTitle(type, record),
     resource_type |-> type]

BriefRemoteResource(type, record) ==
    [unique_identifier |-> MakeUniqueIdentifier(type, record.id),
     title |-> PySliceTo(RecordTitle(type, record), TITLE_MAX_LENGTH),
     resource_type |-> type]

\* A listing that does not look at the harvest flag.
_list_brief_resources_unconditional(type, off) ==
    LET raw_result == get_paginated_resources(type, off)
    IN [list |-> [i \in 1..Len(raw_result) |->
                     BriefRemoteResource(type, raw_result[i])],
        reqs |-> <<PageRequest(type, off)>>]

\* _list_brief_resources: the list it returns and the requests it issues.
\* The flag of the type is looked up with (False, None) as the default of an
\* unknown type, so that nothing is requested or formatted for one.
_list_brief_resources(type, off) ==
    LET should_list == IF type \in ResourceTypes THEN harvest[type] ELSE FALSE
    IN IF should_list
       THEN LET raw_result == get_paginated_resources(type, off)
            IN [list |-> [i \in 1..Len(raw_result) |->
                             BriefRemoteResource(type, raw_result[i])],
                reqs |-> <<PageRequest(type, off)>>]
       ELSE [list |-> <<>>, reqs |-> <<>>]

\* A top-up that reads the projects from the offset of the news.
_list_resources_starting_from_news_same_offset(off) ==
    LET _page == page_size
        news == _list_brief_resources(NEWS_ARTICLE, off)
    IN IF Len(news.list) < _page
       THEN LET projects == _list_brief_resources(PROJECT, off)
            IN [list |-> PySliceTo(news.list \o projects.list, _page),
                reqs |-> news.reqs \o projects.reqs]
       ELSE [list |-> PySliceTo(news.list, _page), reqs |-> news.reqs]

_list_resources_starting_from_news(off) ==
    LET _page == page_size
        news == _list_brief_resources(NEWS_ARTICLE, off)
    IN IF Len(news.list) < _page
       THEN LET projects == _list_brief_resources(PROJECT, 0)
            IN [list |-> PySliceTo(news.list \o projects.list, _page),
                reqs |-> news.reqs \o projects.reqs]
       ELSE [list |-> PySliceTo(news.list, _page), reqs |-> news.reqs]

\* A top-up from experts that asks the news and the projects whatever it
\* has gathered.
_list_resources_starting_from_experts_eager(off) ==
    LET _page == page_size
        expert == _list_brief_resources(EXPERT, off)
        news == _list_brief_resources(NEWS_ARTICLE, 0)
        projects == _list_brief_resources(PROJECT, 0)
    IN [list |-> PySliceTo(expert.list \o news.list \o projects.list, _page),
        reqs |-> expert.reqs \o news.reqs \o projects.reqs]

_list_resources_starting_from_experts(off) ==
    LET _page == page_size
        expert == _list_brief_resources(EXPERT, off)
    IN IF Len(expert.list) < _page
       THEN LET news == _list_brief_resources(NEWS_ARTICLE, 0)
                added == expert.list \o news.list
            IN IF Len(added) < _page
               THEN LET projects == _list_brief_resources(PROJECT, 0)
                    IN [list |-> PySliceTo(added \o projects.list, _page),
                        reqs |-> expert.reqs \o news.reqs \o projects.reqs]
               ELSE [list |-> PySliceTo(added, _page),
                     reqs |-> expert.reqs \o news.reqs]
       ELSE [list |-> PySliceTo(expert.list, _page), reqs |-> expert.reqs]

_list_resources_starting_from_documents(off) ==
    LET _page == page_size
        document == _list_brief_resources(DOCUMENT, off)
    IN IF Len(document.list) < _page
       THEN LET expert == _list_brief_resources(EXPERT, 0)
                added == document.list \o expert.list
            IN IF Len(added) < _page
               THEN LET news == _list_brief_resources(NEWS_ARTICLE, 0)
                        added2 == added \o news.list
                    IN IF Len(added2) < _page
                       THEN LET projects == _list_brief_resources(PROJECT, 0)
                            IN [list |-> PySliceTo(added2 \o projects.list, _page),
                                reqs |-> document.reqs \o expert.reqs \o news.reqs
                                         \o projects.reqs]
                       ELSE [list |-> PySliceTo(added2, _page),
                             reqs |-> document.reqs \o expert.reqs \o news.reqs]
               ELSE [list |-> PySliceTo(added, _page),
                     reqs |-> document.reqs \o expert.reqs]
       ELSE [list |-> PySliceTo(document.list, _page), reqs |-> document.reqs]

\* A top-up from alerts that returns what it gathered without cutting it.
_list_resources_starting_from_alerts_uncut(off) ==
    LET _page == page_size
        alert == _list_brief_resources(ALERT, off)
    IN IF Len(alert.list) < _page
       THEN LET document == _list_brief_resources(DOCUMENT, 0)
                expert == _list_brief_resources(EXPERT, 0)
                news == _list_brief_resources(NEWS_ARTICLE, 0)
                projects == _list_brief_resources(PROJECT, 0)
            IN [list |-> alert.list \o document.list \o expert.list \o news.list
                         \o projects.list,
                reqs |-> alert.reqs \o document.reqs \o expert.reqs \o news.reqs
                         \o projects.reqs]
       ELSE [list |-> alert.list, reqs |-> alert.reqs]

_list_resources_starting_from_alerts(off) ==
    LET _page == page_size
        alert == _list_brief_resources(ALERT, off)
    IN IF Len(alert.list) < _page
       THEN LET document == _list_brief_resources(DOCUMENT, 0)
                added == alert.list \o document.list
            IN IF Len(added) < _page
               THEN LET expert == _list_brief_resources(EXPERT, 0)
                        added2 == added \o expert.list
                    IN IF Len(added2) < _page
                       THEN LET news == _list_brief_resources(NEWS_ARTICLE, 0)
                                added3 == added2 \o news.list
                            IN IF Len(added3) < _page
                               THEN LET projects == _list_brief_resources(PROJECT, 0)
                                    IN [list |-> PySliceTo(added3 \o projects.list, _page),
                                        reqs |-> alert.reqs \o document.reqs \o expert.reqs
                                                 \o news.reqs \o projects.reqs]
                               ELSE [list |-> PySliceTo(added3, _page),
                                     reqs |-> alert.reqs \o document.reqs \o expert.reqs
                                              \o news.reqs]
                       ELSE [list |-> PySliceTo(added2, _page),
                             reqs |-> alert.reqs \o document.reqs \o expert.reqs]
               ELSE [list |-> PySliceTo(added, _page),
                     reqs |-> alert.reqs \o document.reqs]
       ELSE [list |-> PySliceTo(alert.list, _page), reqs |-> alert.reqs]

\* list_resources: the list it returns and the requests it issues
list_resources(off) ==
    LET total_resources == _get_num_available_resources_by_type
        upto_documents == total_resources[ALERT] + total_resources[DOCUMENT]
        upto_experts == upto_documents + total_resources[EXPERT]
        upto_news == upto_experts + total_resources[NEWS_ARTICLE]
        listed ==
            IF off < total_resources[ALERT]
            THEN _list_resources_starting_from_alerts(off)
            ELSE IF off < upto_documents
            THEN _list_resources_starting_from_documents(off - total_resources[ALERT])
            ELSE IF off < upto_experts
            THEN _list_resources_starting_from_experts(off - upto_documents)
            ELSE IF off < upto_news
            THEN _list_resources_starting_from_news(off - upto_experts)
            ELSE LET _page == page_size
                     projects == _list_brief_resources(PROJECT, off - upto_news)
                 IN [list |-> PySliceTo(projects.list, _page), reqs |-> projects.reqs]
    IN [list |-> listed.list, reqs |-> NumAvailableRequests \o listed.reqs]

\* What a call gives its caller.  requests raises ConnectionError (or Timeout)
\* out of http_session.get when no connection is made in time; neither the
\* client nor the worker catches it, so the first request of the call ends
\* the call.  The first request does not depend on any response.
Outcome(returned) ==
    IF ~remote_reachable /\ returned.reqs # <<>>
    THEN [raised |-> "ConnectionError", value |-> <<>>,
          reqs |-> <<Head(returned.reqs)>>]
    ELSE [raised |-> "", value |-> returned.list, reqs |-> returned.reqs]

-----------------------------------------------------------------------------
(* The local tables (pdn/models.py) and Django's update_or_create *)

ALERT_TABLE   == "Alert"
EXPERT_TABLE  == "Expert"
NEWS_TABLE    == "News"
PROJECT_TABLE == "Project"
Tables == {ALERT_TABLE, EXPERT_TABLE, NEWS_TABLE, PROJECT_TABLE}

\* The columns of a table besides remote_id.
Columns(table) ==
    CASE table = ALERT_TABLE ->
           {"content", "countries", "daterecieved", "ignore", "subject", "uuid",
            "source_id"}
      [] table = EXPERT_TABLE ->
           {"name", "title", "country", "country_code", "email", "ministry",
            "country_id"}
      [] table = NEWS_TABLE ->
           {"source_id", "title", "url", "country", "country_code", "date", "source"}
      [] table = PROJECT_TABLE ->
           {"name", "acronym", "description", "logo_url", "url", "active"}

\* Whether a column accepts NULL: no field of models.py is declared null=True.
Nullable(table, column) == FALSE

\* Indexes of the rows of a table with a remote id.
RowsWith(rows, remote_id) == {i \in 1..Len(rows) : rows[i].remote_id = remote_id}

\* What the database answers to the INSERT or UPDATE of a row.
NotNullViolated(table, row) ==
    \/ row.remote_id = None
    \/ \E c \in Columns(table) : row[c] = None /\ ~Nullable(table, c)

\* An upsert that inserts a row whether or not the remote id has one.
update_or_create_always_insert(table, rows, remote_id, defaults) ==
    LET row == [c \in Columns(table) \cup {"remote_id"} |->
                    IF c = "remote_id" THEN remote_id ELSE defaults[c]]
    IN IF NotNullViolated(table, row)
       THEN [raised |-> "IntegrityError", rows |-> rows]
       ELSE [raised |-> "", rows |-> Append(rows, row)]

\* Model.objects.update_or_create(remote_id=..., defaults={...}) on a table
\* whose remote_id is unique: the row with the remote id gets every default
\* written, or a row is inserted; the database refuses a NULL in a column
\* that is not nullable, and the table is then left as it was.
update_or_create(table, rows, remote_id, defaults) ==
    LET found == RowsWith(rows, remote_id)
        row == [c \in Columns(table) \cup {"remote_id"} |->
                    IF c = "remote_id" THEN remote_id ELSE defaults[c]]
    IN IF NotNullViolated(table, row)
       THEN [raised |-> "IntegrityError", rows |-> rows]
       ELSE IF found # {}
       THEN [raised |-> "",
             rows |-> [i \in 1..Len(rows) |-> IF i \in found THEN row ELSE rows[i]]]
       ELSE [raised |-> "", rows |-> Append(rows, row)]

-----------------------------------------------------------------------------
(* PdnHarvesterWorker: reconciliation.  Each handler gives the exception   *)
(* it raises ("" for none) and the rows of its table afterwards.           *)

_update_alert_record(rows, raw_record) ==
    LET parsed == IF "daterecieved" \in DOMAIN raw_record
                  THEN dateutil_parse(raw_record["daterecieved"])
                  ELSE [raised |-> "", value |-> None]
    IN IF parsed.raised # "" THEN [raised |-> parsed.raised, rows |-> rows]
       ELSE IF "id" \notin DOMAIN raw_record THEN [raised |-> "KeyError", rows |-> rows]
       ELSE update_or_create(ALERT_TABLE, rows, raw_record["id"],
                [content |-> DictGet(raw_record, "content", StrValue("")),
                 countries |-> DictGet(raw_record, "countries", StrValue("")),
                 daterecieved |-> parsed.value,
                 ignore |-> DictGet(raw_record, "ignore", BoolValue(FALSE)),
                 subject |-> DictGet(raw_record, "subject", StrValue("")),
                 uuid |-> DictGet(raw_record, "uuid", StrValue("")),
                 source_id |-> DictGet(raw_record, "source_id", IntValue(0))])

_update_expert_record(rows, raw_record) ==
    IF "id" \notin DOMAIN raw_record THEN [raised |-> "KeyError", rows |-> rows]
    ELSE update_or_create(EXPERT_TABLE, rows, raw_record["id"],
             [name |-> DictGet(raw_record, "name", StrValue("")),
              title |-> DictGet(raw_record, "title", StrValue("")),
              country |-> DictGet(raw_record, "country", StrValue("")),
              country_code |-> PyOr(DictGet(raw_record, "country_code", None), StrValue("")),
              email |-> DictGet(raw_record, "email", StrValue("")),
              ministry |-> DictGet(raw_record, "ministry", StrValue("")),
              country_id |-> PyOr(DictGet(raw_record, "country_id", None), StrValue(""))])

_update_news_record(rows, raw_record) ==
    LET parsed == IF "date" \in DOMAIN raw_record
                  THEN dateutil_parse(raw_record["date"])
                  ELSE [raised |-> "", value |-> None]
    IN IF parsed.raised # "" THEN [raised |-> parsed.raised, rows |-> rows]
       ELSE IF "id" \notin DOMAIN raw_record THEN [raised |-> "KeyError", rows |-> rows]
       ELSE update_or_create(NEWS_TABLE, rows, raw_record["id"],
                [source_id |-> DictGet(raw_record, "source_id", IntValue(0)),
                 title |-> DictGet(raw_record, "title", StrValue("")),
                 url |-> DictGet(raw_record, "url", StrValue("")),
                 country |-> DictGet(raw_record, "country", StrValue("")),
                 country_code |-> PyOr(DictGet(raw_record, "country_code", None), StrValue("")),
                 date |-> parsed.value,
                 source |-> DictGet(raw_record, "source", StrValue(""))])

\* A handler that reads the id with a default of 0.
_update_project_record_default_id(rows, raw_record) ==
    update_or_create(PROJECT_TABLE, rows, DictGet(raw_record, "id", IntValue(0)),
        [name |-> DictGet(raw_record, "name", StrValue("")),
         acronym |-> DictGet(raw_record, "acronym", StrValue("")),
         description |-> DictGet(raw_record, "description", StrValue("")),
         logo_url |-> DictGet(raw_record, "logo_url", StrValue("")),
         url |-> DictGet(raw_record, "url", StrValue("")),
         active |-> DictGet(raw_record, "active", BoolValue(FALSE))])

_update_project_record(rows, raw_record) ==
    IF "id" \notin DOMAIN raw_record THEN [raised |-> "KeyError", rows |-> rows]
    ELSE update_or_create(PROJECT_TABLE, rows, raw_record["id"],
             [name |-> DictGet(raw_record, "name", StrValue("")),
              acronym |-> DictGet(raw_record, "acronym", StrValue("")),
              description |-> DictGet(raw_record, "description", StrValue("")),
              logo_url |-> DictGet(raw_record, "logo_url", StrValue("")),
              url |-> DictGet(raw_record, "url", StrValue("")),
              active |-> DictGet(raw_record, "active", BoolValue(FALSE))])

\* The table a resource type is reconciled into.
TableOf(type) ==
    CASE type = ALERT -> ALERT_TABLE
      [] type = EXPERT -> EXPERT_TABLE
      [] type = NEWS_ARTICLE -> NEWS_TABLE
      [] type = PROJECT -> PROJECT_TABLE

\* The resource types update_geonode_resource reconciles into a local table.
RecordTypes == {ALERT, EXPERT, NEWS_ARTICLE, PROJECT}

\* A remote_resource_type that is no value of PdnResourceType.
UNKNOWN_TYPE == <<"l","a","y","e","r">>

\* A reconciliation in which every handler writes to the table of the alerts.
update_geonode_resource_into_alerts(tables, type, raw_record) ==
    IF type \notin ResourceTypes THEN [raised |-> "ValueError", tables |-> tables]
    ELSE LET rows == tables[ALERT_TABLE]
             done == CASE type = ALERT -> _update_alert_record(rows, raw_record)
                       [] type = EXPERT -> _update_expert_record(rows, raw_record)
                       [] type = NEWS_ARTICLE -> _update_news_record(rows, raw_record)
                       [] type = PROJECT -> _update_project_record(rows, raw_record)
         IN [raised |-> done.raised,
             tables |-> [tables EXCEPT ![ALERT_TABLE] = done.rows]]

\* update_geonode_resource: the handler of the resource type, applied to
\* harvested_info.additional_information.  PdnResourceType(value) raises a
\* ValueError for a value that is not one of the enumeration.  The handler
\* of documents is super().update_geonode_resource, which works on the
\* catalog and on none of the tables of pdn/models.py.
update_geonode_resource(tables, type, raw_record) ==
    IF type \notin ResourceTypes THEN [raised |-> "ValueError", tables |-> tables]
    ELSE IF type = DOCUMENT THEN [raised |-> "", tables |-> tables]
    ELSE LET rows == tables[TableOf(type)]
             done == CASE type = ALERT -> _update_alert_record(rows, raw_record)
                       [] type = EXPERT -> _update_expert_record(rows, raw_record)
                       [] type = NEWS_ARTICLE -> _update_news_record(rows, raw_record)
                       [] type = PROJECT -> _update_project_record(rows, raw_record)
         IN [raised |-> done.raised,
             tables |-> [tables EXCEPT ![TableOf(type)] = done.rows]]

\* A sequence without the elements at some indexes.
RECURSIVE Without(_, _)
Without(rows, found) ==
    IF rows = <<>> THEN <<>>
    ELSE LET rest == Without(SubSeq(rows, 1, Len(rows) - 1), found)
         IN IF Len(rows) \in found THEN rest ELSE Append(rest, rows[Len(rows)])

\* harvesting_models.HarvestableResource: the fields the worker reads
HarvestableResource(type, unique_identifier, catalog_entry) ==
    [remote_resource_type |-> type, unique_identifier |-> unique_identifier,
     geonode_resource |-> catalog_entry]

\* A deletion that lets DoesNotExist through.
finalize_resource_deletion_uncaught(tables, harvestable_resource) ==
    LET type == harvestable_resource.remote_resource_type
        remote_id == finalize_resource_deletion_remote_id(
                         harvestable_resource.unique_identifier)
        rows == tables[TableOf(type)]
        found == RowsWith(rows, IntValue(remote_id.value))
    IN IF type \notin ResourceTypes THEN [raised |-> "ValueError", tables |-> tables]
       ELSE IF type \notin RecordTypes THEN [raised |-> "", tables |-> tables]
       ELSE IF ~remote_id.ok THEN [raised |-> "ValueError", tables |-> tables]
       ELSE IF found = {} THEN [raised |-> "DoesNotExist", tables |-> tables]
       ELSE [raised |-> "",
             tables |-> [tables EXCEPT ![TableOf(type)] = Without(rows, found)]]

\* A deletion that removes the remote id from every table.
finalize_resource_deletion_every_table(tables, harvestable_resource) ==
    LET type == harvestable_resource.remote_resource_type
        remote_id == finalize_resource_deletion_remote_id(
                         harvestable_resource.unique_identifier)
    IN IF type \notin ResourceTypes THEN [raised |-> "ValueError", tables |-> tables]
       ELSE IF type \notin RecordTypes THEN [raised |-> "", tables |-> tables]
       ELSE IF ~remote_id.ok THEN [raised |-> "ValueError", tables |-> tables]
       ELSE [raised |-> "",
             tables |-> [table \in Tables |->
                            Without(tables[table],
                                    RowsWith(tables[table], IntValue(remote_id.value)))]]

\* finalize_resource_deletion: PdnResourceType(value) raises a ValueError for
\* an unknown value; a type without a record class (document) is left alone;
\* int() raises a ValueError; objects.get raises DoesNotExist, which is caught
\* and logged, or MultipleObjectsReturned, which is not.
finalize_resource_deletion(tables, harvestable_resource) ==
    LET type == harvestable_resource.remote_resource_type
        remote_id == finalize_resource_deletion_remote_id(
                         harvestable_resource.unique_identifier)
        rows == tables[TableOf(type)]
        found == RowsWith(rows, IntValue(remote_id.value))
    IN IF type \notin ResourceTypes THEN [raised |-> "ValueError", tables |-> tables]
       ELSE IF type \notin RecordTypes THEN [raised |-> "", tables |-> tables]
       ELSE IF ~remote_id.ok THEN [raised |-> "ValueError", tables |-> tables]
       ELSE IF found = {} THEN [raised |-> "", tables |-> tables]
       ELSE IF Cardinality(found) > 1
       THEN [raised |-> "MultipleObjectsReturned", tables |-> tables]
       ELSE [raised |-> "",
             tables |-> [tables EXCEPT ![TableOf(type)] = Without(rows, found)]]

-----------------------------------------------------------------------------
(* PdnHarvesterWorker.get_resource and the descriptor of a document *)

\* The service's answer to  GET <endpoint>?id=eq.<remote_id>  asking for one
\* object: the record of the collection whose id reads as remote_id.
RemoteObject(type, remote_id) ==
    LET at == IF type \in ResourceTypes
              THEN {i \in 1..remote[type] : PyStr(RemoteRecord(type, i).id) = remote_id}
              ELSE {}
    IN IF ~remote_up THEN [status |-> "unavailable"]
       ELSE IF at = {} THEN [status |-> "not_acceptable"]
       ELSE [status |-> "ok", json |-> RemoteRecord(type, CHOOSE i \in at : TRUE)]

ResourceRequest(type, remote_id) ==
    [kind |-> "resource", type |-> type, offset |-> remote_id]

\* PostgRestClient.get_resource
_api_client_get_resource(type, remote_id) ==
    LET response == RemoteObject(type, remote_id)
    IN IF response.status = "ok" THEN response.json ELSE None

\* str(uuid): the text a catalog entry keeps its identifier as
uuid_str(uuid_) == StrNat(uuid_)

\* uuid.UUID(text)
uuid_UUID(text) ==
    IF AllDigits(text) THEN [ok |-> TRUE, value |-> NatOfDigits(text)]
    ELSE [ok |-> FALSE, value |-> "ValueError"]

\* A descriptor that gets a fresh identifier at every call.
_get_resource_descriptor_always_minted(raw_resource, harvestable_resource, uuid4) ==
    [raised |-> "", uuid |-> uuid4, link_url |-> PyStr(raw_resource.id)]

\* _get_resource_descriptor_for_document_resource: the identifier and the
\* link of the RecordDescription; uuid4 is what uuid.uuid4() returns in this
\* call.
_get_resource_descriptor_for_document_resource(raw_resource, harvestable_resource, uuid4) ==
    IF harvestable_resource.geonode_resource # None
    THEN LET uuid_ == uuid_UUID(harvestable_resource.geonode_resource.uuid)
         IN IF uuid_.ok
            THEN [raised |-> "", uuid |-> uuid_.value,
                  link_url |-> PyStr(raw_resource.id)]
            ELSE [raised |-> "ValueError"]
    ELSE [raised |-> "", uuid |-> uuid4, link_url |-> PyStr(raw_resource.id)]

\* A get_resource that hands the raw record over for a document as well.
get_resource_with_raw_document(harvestable_resource, uuid4) ==
    LET type == harvestable_resource.remote_resource_type
        remote_id == get_resource_remote_id(harvestable_resource.unique_identifier)
        raw_resource == _api_client_get_resource(type, remote_id)
        reqs == <<ResourceRequest(type, remote_id)>>
    IN IF raw_resource = None THEN [raised |-> "", list |-> None, reqs |-> reqs]
       ELSE IF type = DOCUMENT
       THEN LET resource_descriptor ==
                    _get_resource_descriptor_for_document_resource(
                        raw_resource, harvestable_resource, uuid4)
            IN IF resource_descriptor.raised # ""
               THEN [raised |-> resource_descriptor.raised, list |-> None, reqs |-> reqs]
               ELSE [raised |-> "",
                     list |-> [resource_descriptor |-> resource_descriptor,
                               additional_information |-> raw_resource],
                     reqs |-> reqs]
       ELSE [raised |-> "",
             list |-> [resource_descriptor |-> None,
                       additional_information |-> raw_resource],
             reqs |-> reqs]

\* get_resource: what it returns (None, or the HarvestedResourceInfo), the
\* request it issues and the exception of the descriptor, if any
get_resource(harvestable_resource, uuid4) ==
    LET type == harvestable_resource.remote_resource_type
        remote_id == get_resource_remote_id(harvestable_resource.unique_identifier)
        raw_resource == _api_client_get_resource(type, remote_id)
        reqs == <<ResourceRequest(type, remote_id)>>
    IN IF raw_resource = None THEN [raised |-> "", list |-> None, reqs |-> reqs]
       ELSE IF type = DOCUMENT
       THEN LET resource_descriptor ==
                    _get_resource_descriptor_for_document_resource(
                        raw_resource, harvestable_resource, uuid4)
            IN IF resource_descriptor.raised # ""
               THEN [raised |-> resource_descriptor.raised, list |-> None, reqs |-> reqs]
               ELSE [raised |-> "",
                     list |-> [resource_descriptor |-> resource_descriptor,
                               additional_information |-> None],
                     reqs |-> reqs]
       ELSE [raised |-> "",
             list |-> [resource_descriptor |-> None,
                       additional_information |-> raw_resource],
             reqs |-> reqs]

-----------------------------------------------------------------------------
(* Values of the variables a specification does not exercise *)

ListIdle ==
    /\ harvest = [t \in ResourceTypes |-> TRUE]
    /\ page_size = 1
    /\ remote = [t \in ResourceTypes |-> 0]
    /\ remote_up = TRUE
    /\ remote_reachable = TRUE
    /\ remote_text = Text(1)
    /\ filters = NoFilters
    /\ op = "none"
    /\ offset = 0
    /\ result = <<>>
    /\ requests = <<>>
    /\ raised = ""
    /\ geonode_resource = <<>>
    /\ pages = <<>>

IdIdle ==
    /\ uid_type = <<>>
    /\ uid_remote = 0
    /\ uid = <<>>
    /\ uid_parsed = <<>>

ConcurrentIdle ==
    /\ target = <<>>
    /\ workers = <<>>
    /\ pks = <<>>

StoreIdle ==
    /\ store = <<>>
    /\ log = <<>>
    /\ before = <<>>
    /\ ConcurrentIdle

-----------------------------------------------------------------------------
(* Specification of the listing: a worker is constructed with any flags    *)
(* and page size against any remote, and one of its listing methods is     *)
(* called.  The worker keeps no state between calls, so op is the position *)
(* of the caller: "none" before the call, the method's name after it.      *)

\* What the remote holds in the collections the worker harvests.
EnabledTotal ==
    SumSeq([i \in 1..Len(PdnResourceType) |->
              IF harvest[PdnResourceType[i]] THEN remote[PdnResourceType[i]] ELSE 0])

Init ==
    /\ harvest \in [ResourceTypes -> BOOLEAN]
    /\ page_size \in 1..MaxPageSize
    /\ remote \in [ResourceTypes -> 0..MaxCount]
    /\ \A t \in ResourceTypes : ~harvest[t] => remote[t] \in {0, MaxCount}
    /\ remote_up = TRUE
    /\ remote_reachable = TRUE
    /\ remote_text = Text(1)
    /\ filters = NoFilters
    /\ op = "none"
    /\ offset = 0
    /\ result = <<>>
    /\ requests = <<>>
    /\ raised = ""
    /\ geonode_resource = <<>>
    /\ pages = <<>>
    /\ IdIdle
    /\ StoreIdle

ListResources(o) ==
    /\ op = "none"
    /\ op' = "list_resources"
    /\ offset' = o
    /\ \E done \in {Outcome(list_resources(o))} :
          /\ result' = done.value
          /\ requests' = done.reqs
          /\ raised' = done.raised
    /\ UNCHANGED <<harvest, page_size, remote, remote_up, remote_reachable,
                   remote_text, filters, geonode_resource, pages>>
    /\ UNCHANGED <<id_vars, store_vars>>

GetNumAvailableResources ==
    /\ op = "none"
    /\ op' = "get_num_available_resources"
    /\ \E done \in {Outcome([list |-> get_num_available_resources,
                               reqs |-> NumAvailableRequests])} :
          /\ result' = done.value
          /\ requests' = done.reqs
          /\ raised' = done.raised
    /\ UNCHANGED <<harvest, page_size, remote, remote_up, remote_reachable, offset,
                   remote_text, filters, geonode_resource, pages>>
    /\ UNCHANGED <<id_vars, store_vars>>

\* The dispatch point of the listing, called for a resource type.
ListBriefResources(type, o) ==
    /\ op = "none"
    /\ op' = "_list_brief_resources"
    /\ offset' = o
    /\ \E done \in {Outcome(_list_brief_resources(type, o))} :
          /\ result' = [resource_type |-> type, list |-> done.value]
          /\ requests' = done.reqs
          /\ raised' = done.raised
    /\ UNCHANGED <<harvest, page_size, remote, remote_up, remote_reachable,
                   remote_text, filters, geonode_resource, pages>>
    /\ UNCHANGED <<id_vars, store_vars>>

Next ==
    \/ \E o \in 0..(EnabledTotal + 1) : ListResources(o)
    \/ GetNumAvailableResources
    \/ \E type \in ResourceTypes \cup {UNKNOWN_TYPE} : ListBriefResources(type, 0)

Spec == Init /\ [][Next]_vars

-----------------------------------------------------------------------------
(* The virtual catalog: the harvested collections concatenated in the      *)
(* canonical order, each in its remote order.                              *)

Collection(type) ==
    [i \in 1..remote[type] |-> BriefRemoteResource(type, RemoteRecord(type, i))]

VirtualCatalog ==
    Concat([i \in 1..Len(PdnResourceType) |->
              IF harvest[PdnResourceType[i]]
              THEN Collection(PdnResourceType[i]) ELSE <<>>])

\* Position of a type in the canonical order.
TypeIndex(type) == CHOOSE i \in 1..Len(PdnResourceType) : PdnResourceType[i] = type

\* Number of harvested records in the collections before a type.
EnabledBefore(type) ==
    SumSeq([i \in 1..(TypeIndex(type) - 1) |->
              IF harvest[PdnResourceType[i]] THEN remote[PdnResourceType[i]] ELSE 0])

Listed == op = "list_resources"

C4_DisabledInvisible ==
    \A t \in ResourceTypes : ~harvest[t] =>
        /\ _get_num_available_resources_by_type[t] = 0
        /\ Listed =>
              /\ \A j \in 1..Len(result) : result[j].resource_type # t
              /\ \A j \in 1..Len(result) :
                    LET u == result[j].resource_type
                        k == offset + j - EnabledBefore(u)
                    IN /\ k \in 1..remote[u]
                       /\ result[j] = BriefRemoteResource(u, RemoteRecord(u, k))

\* The remote holds documents that are not harvested, between the alerts
\* and the experts that share a page.
C4_Witness ==
    /\ Listed
    /\ ~harvest[DOCUMENT] /\ remote[DOCUMENT] > 0
    /\ Len(result) >= 2
    /\ result[1].resource_type = ALERT
    /\ result[2].resource_type = EXPERT

-----------------------------------------------------------------------------
(* Specification of the composite identifier: a brief resource is built    *)
(* for a raw record of a type, and its identifier is later parsed by       *)
(* get_resource or by finalize_resource_deletion.                          *)

IdInit ==
    /\ uid_type \in ResourceTypes
    /\ uid_remote \in (0 - MaxRemoteId)..MaxRemoteId
    /\ uid = <<>>
    /\ uid_parsed = <<>>
    /\ ListIdle
    /\ StoreIdle

\* _list_brief_resources builds the identifier of the brief resource
BuildBriefResource ==
    /\ uid = <<>>
    /\ uid' = BriefRemoteResource(
                  uid_type, [RemoteRecord(uid_type, 1) EXCEPT !.id = uid_remote]
              ).unique_identifier
    /\ UNCHANGED <<uid_type, uid_remote, uid_parsed>>
    /\ UNCHANGED <<list_vars, store_vars>>

\* get_resource recovers the remote id it asks the remote for
GetResourceParse ==
    /\ uid # <<>>
    /\ uid_parsed = <<>>
    /\ uid_parsed' = [by |-> "get_resource",
                      head |-> rpartition(uid, _UNIQUE_ID_SEPARATOR)[1],
                      remote_id |-> get_resource_remote_id(uid)]
    /\ UNCHANGED <<uid_type, uid_remote, uid>>
    /\ UNCHANGED <<list_vars, store_vars>>

\* finalize_resource_deletion recovers the remote id of the row to delete
FinalizeResourceDeletionParse ==
    /\ uid # <<>>
    /\ uid_parsed = <<>>
    /\ uid_parsed' = [by |-> "finalize_resource_deletion",
                      head |-> rpartition(uid, _UNIQUE_ID_SEPARATOR)[1],
                      remote_id |-> finalize_resource_deletion_remote_id(uid)]
    /\ UNCHANGED <<uid_type, uid_remote, uid>>
    /\ UNCHANGED <<list_vars, store_vars>>

IdNext ==
    \/ BuildBriefResource
    \/ GetResourceParse
    \/ FinalizeResourceDeletionParse

IdSpec == IdInit /\ [][IdNext]_vars

ParsedBy(method) == uid_parsed # <<>> /\ uid_parsed.by = method

\* The round trip of the identifier of the record of uid_type with id uid_remote.
RoundTrips ==
    /\ ParsedBy("get_resource") =>
          /\ uid_parsed.head = uid_type
          /\ uid_parsed.remote_id = PyStr(uid_remote)
    /\ ParsedBy("finalize_resource_deletion") =>
          /\ uid_parsed.head = uid_type
          /\ uid_parsed.remote_id = [ok |-> TRUE, value |-> uid_remote]

HasSeparator(text) == \E i \in 1..Len(text) : text[i] = _UNIQUE_ID_SEPARATOR

-----------------------------------------------------------------------------
(* Specification of the reconciliation: starting from empty tables, raw    *)
(* records of the four record types are reconciled one after the other.    *)

\* The keys of the raw records of a type: 'id' and one key per column.
Keys(type) == Columns(TableOf(type)) \cup {"id"}

\* The key of a type that holds a date-time text, if it has one.
DateKeys(type) ==
    CASE type = ALERT -> {"daterecieved"}
      [] type = NEWS_ARTICLE -> {"date"}
      [] OTHER -> {}

\* The key of a type that names the record.
LabelKey(type) ==
    CASE type = ALERT -> "subject"
      [] type = NEWS_ARTICLE -> "title"
      [] OTHER -> "name"

\* The keys present in a raw record: all, only the id, all but the id, all
\* but the date, only the id with the date and the label.
Shapes(type) ==
    {Keys(type), {"id"}, Keys(type) \ {"id"}, Keys(type) \ DateKeys(type),
     {"id", LabelKey(type)} \cup DateKeys(type)}

RemoteIds == {7, 8}
RawVersions == {1, 2}

\* The value of a key in the raw record of a remote id, in one of two versions
\* of the remote data.
RawValue(key, id, version) ==
    CASE key = "id" -> IntValue(id)
      [] key \in {"daterecieved", "date"} ->
           StrValue(IF version = 1 THEN "2024-01-02T00:00:00Z"
                                   ELSE "2024-03-04T05:06:07Z")
      [] key \in {"ignore", "active"} -> BoolValue(version = 1)
      [] key = "source_id" -> IntValue(version)
      [] OTHER -> StrValue(IF version = 1 THEN "Flood" ELSE "Storm")

RawRecords(type) ==
    {[k \in shape |-> RawValue(k, id, version)] :
        shape \in Shapes(type), id \in RemoteIds, version \in RawVersions}

StoreInit ==
    /\ store = [table \in Tables |-> <<>>]
    /\ log = <<>>
    /\ before = [table \in Tables |-> <<>>]
    /\ ConcurrentIdle
    /\ ListIdle
    /\ IdIdle

\* The orchestrator reconciles one harvested raw record.
UpdateGeonodeResource(type, raw_record) ==
    /\ Len(log) < MaxOps
    /\ LET done == update_geonode_resource(store, type, raw_record)
       IN /\ store' = done.tables
          /\ log' = Append(log, [op |-> "update_geonode_resource", type |-> type,
                                 raw |-> raw_record, raised |-> done.raised])
    /\ before' = store
    /\ UNCHANGED <<target, workers, pks>>
    /\ UNCHANGED <<list_vars, id_vars>>

StoreNext ==
    \E type \in RecordTypes : \E raw_record \in RawRecords(type) :
        UpdateGeonodeResource(type, raw_record)

StoreSpec == StoreInit /\ [][StoreNext]_vars

\* The defaults of the field table of the specification.
FieldDefault(column) ==
    CASE column \in {"daterecieved", "date"} -> None
      [] column \in {"ignore", "active"} -> BoolValue(FALSE)
      [] column = "source_id" -> IntValue(0)
      [] OTHER -> StrValue("")

\* The row the field table maps a raw record to.
MappedRow(table, raw_record) ==
    [c \in Columns(table) \cup {"remote_id"} |->
        IF c = "remote_id" THEN raw_record["id"]
        ELSE IF c \notin DOMAIN raw_record THEN FieldDefault(c)
        ELSE IF c \in {"daterecieved", "date"} THEN dateutil_parse(raw_record[c]).value
        ELSE raw_record[c]]

Last == log[Len(log)]
Previous == log[Len(log) - 1]
HasId(raw_record) == "id" \in DOMAIN raw_record
HasDate(type, raw_record) == DateKeys(type) \subseteq DOMAIN raw_record

\* The same raw record of a type was reconciled twice in a row.
ReconciledTwice ==
    /\ Len(log) >= 2
    /\ Last.type = Previous.type
    /\ Last.raw = Previous.raw
    /\ HasId(Last.raw)

\* C8 as stated: reconciling the same raw record twice leaves exactly one
\* local record of that type with that remote id, and the store is as it
\* was after the first reconciliation.
C8_Original ==
    ReconciledTwice =>
        /\ Cardinality(RowsWith(store[TableOf(Last.type)], Last.raw["id"])) = 1
        /\ store = before

\* What holds of the code: the claim for the raw records that carry the
\* date of their type.
C8_WithDate ==
    (ReconciledTwice /\ HasDate(Last.type, Last.raw)) =>
        /\ Cardinality(RowsWith(store[TableOf(Last.type)], Last.raw["id"])) = 1
        /\ store = before

\* A raw record of a remote id is reconciled onto the row of an earlier,
\* different raw record of the same type and remote id.
ReconciledOver ==
    /\ Len(log) >= 2
    /\ Last.type = Previous.type
    /\ HasId(Last.raw) /\ HasId(Previous.raw)
    /\ Last.raw["id"] = Previous.raw["id"]
    /\ Last.raw # Previous.raw
    /\ RowsWith(before[TableOf(Last.type)], Last.raw["id"]) # {}

\* C9 as stated: after the second reconciliation every mapped field of the
\* local record is the value computed from the second raw record alone; a
\* field the second raw record lacks is at its table default.
C9_Original ==
    ReconciledOver =>
        LET rows == store[TableOf(Last.type)]
        IN \A i \in RowsWith(rows, Last.raw["id"]) :
               rows[i] = MappedRow(TableOf(Last.type), Last.raw)

\* What holds of the code: the claim for second raw records that carry the
\* date of their type.
C9_WithDate ==
    (ReconciledOver /\ HasDate(Last.type, Last.raw)) =>
        LET rows == store[TableOf(Last.type)]
        IN /\ RowsWith(rows, Last.raw["id"]) # {}
           /\ \A i \in RowsWith(rows, Last.raw["id"]) :
                  rows[i] = MappedRow(TableOf(Last.type), Last.raw)

\* A raw record with an id is reconciled and its table holds no row of it.
ReconciledNew ==
    /\ Len(log) >= 1
    /\ HasId(Last.raw)
    /\ RowsWith(before[TableOf(Last.type)], Last.raw["id"]) = {}

\* C10 as stated: reconciling a raw record with no prior local record
\* creates one local record whose remote_id is the raw 'id' and in which
\* every mapped field absent from the raw record holds the default of the
\* field table; an Alert or News record without its date is created with an
\* unset date.
C10_Original ==
    ReconciledNew =>
        LET rows == store[TableOf(Last.type)]
            made == RowsWith(rows, Last.raw["id"])
        IN /\ Cardinality(made) = 1
           /\ \A i \in made : rows[i] = MappedRow(TableOf(Last.type), Last.raw)

\* What holds of the code: the claim for the raw records that carry the
\* date of their type.
C10_WithDate ==
    (ReconciledNew /\ HasDate(Last.type, Last.raw)) =>
        LET rows == store[TableOf(Last.type)]
            made == RowsWith(rows, Last.raw["id"])
        IN /\ Cardinality(made) = 1
           /\ \A i \in made : rows[i] = MappedRow(TableOf(Last.type), Last.raw)

\* An alert without its date is reconciled twice: the database refuses the
\* row both times and the table stays empty.
C8_Witness ==
    /\ ReconciledTwice
    /\ Last.type = ALERT
    /\ ~HasDate(ALERT, Last.raw)
    /\ Last.raised = "IntegrityError" /\ Previous.raised = "IntegrityError"
    /\ store[ALERT_TABLE] = <<>>

\* A news record with its date is reconciled, then the record of the same id
\* without its date: the database refuses the update and the row keeps the
\* values of the first raw record.
C9_Witness ==
    /\ ReconciledOver
    /\ Last.type = NEWS_ARTICLE
    /\ ~HasDate(NEWS_ARTICLE, Last.raw)
    /\ Previous.raised = "" /\ Last.raised = "IntegrityError"
    /\ store = before
    /\ Len(store[NEWS_TABLE]) = 1
    /\ store[NEWS_TABLE][1] = MappedRow(NEWS_TABLE, Previous.raw)
    /\ store[NEWS_TABLE][1] # MappedRow(NEWS_TABLE, Last.raw)

\* The raw record {"id": 7} of an alert, without its date, is reconciled into
\* empty tables: the database refuses the row and no record is created.
C10_Witness ==
    /\ Len(log) = 1
    /\ Last.type = ALERT
    /\ Last.raw = [k \in {"id"} |-> IntValue(7)]
    /\ Last.raised = "IntegrityError"
    /\ store[ALERT_TABLE] = <<>>

-----------------------------------------------------------------------------
(* Specification of single records: on tables that earlier reconciliations *)
(* have filled, raw records with a null, a malformed date or no id are     *)
(* reconciled, and harvestable resources are deleted.                      *)

\* The resource type a table belongs to.
TypeOf(table) == CHOOSE type \in RecordTypes : TableOf(type) = table

\* The raw record of a remote id with every key of its type.
FullRecord(type, id, version) == [k \in Keys(type) |-> RawValue(k, id, version)]

\* The tables after the full raw records (first version) of some remote ids
\* have been reconciled for every type, in order.
Populated(ids) ==
    [table \in Tables |->
        [i \in 1..Len(ids) |-> MappedRow(table, FullRecord(TypeOf(table), ids[i], 1))]]

\* A date text dateutil cannot read.
MALFORMED_DATE == "soon"

\* Raw records of remote id 7 (second version): complete, with one key null,
\* with the date malformed, and without the id.
EdgeRawRecords(type) ==
    IF type \notin RecordTypes THEN {FullRecord(PROJECT, 7, 2)}
    ELSE {FullRecord(type, 7, 2)}
         \cup {[FullRecord(type, 7, 2) EXCEPT ![k] = None] : k \in Keys(type) \ {"id"}}
         \cup {[FullRecord(type, 7, 2) EXCEPT ![k] = StrValue(MALFORMED_DATE)] :
                  k \in DateKeys(type)}
         \cup {[k \in Keys(type) \ {"id"} |-> RawValue(k, 7, 2)]}

\* The remote ids deletions are asked for: two that records exist for in
\* the filled tables and one that no record exists for.
DeletedIds == RemoteIds \cup {99}

RecordInit ==
    /\ store \in {Populated(<<>>), Populated(<<7>>), Populated(<<7, 8>>)}
    /\ log = <<>>
    /\ before = store
    /\ ConcurrentIdle
    /\ ListIdle
    /\ IdIdle

\* The orchestrator deletes the harvestable resource of a type and remote id.
FinalizeResourceDeletion(type, id) ==
    /\ Len(log) < MaxOps
    /\ LET harvestable_resource ==
               HarvestableResource(type, MakeUniqueIdentifier(type, id), None)
           done == finalize_resource_deletion(store, harvestable_resource)
       IN /\ store' = done.tables
          /\ log' = Append(log, [op |-> "finalize_resource_deletion", type |-> type,
                                 raw |-> [k \in {"id"} |-> IntValue(id)],
                                 raised |-> done.raised])
    /\ before' = store
    /\ UNCHANGED <<target, workers, pks>>
    /\ UNCHANGED <<list_vars, id_vars>>

RecordNext ==
    \/ \E type \in RecordTypes \cup {UNKNOWN_TYPE} :
           \E raw_record \in EdgeRawRecords(type) :
               UpdateGeonodeResource(type, raw_record)
    \/ \E type \in ResourceTypes \cup {UNKNOWN_TYPE} : \E id \in DeletedIds :
           FinalizeResourceDeletion(type, id)

RecordSpec == RecordInit /\ [][RecordNext]_vars

Updated == Len(log) >= 1 /\ Last.op = "update_geonode_resource"
Deleted == Len(log) >= 1 /\ Last.op = "finalize_resource_deletion"

\* The keys of a raw record that hold null.
NullKeys(raw_record) == {k \in DOMAIN raw_record : raw_record[k] = None}

\* The row the specification maps a raw record to: the default of the field
\* table for a field that is absent or null, an unset date for a date that is
\* absent, null or not a date.
SpecRow(table, raw_record) ==
    [c \in Columns(table) \cup {"remote_id"} |->
        IF c = "remote_id" THEN raw_record["id"]
        ELSE IF c \notin DOMAIN raw_record THEN FieldDefault(c)
        ELSE IF raw_record[c] = None THEN FieldDefault(c)
        ELSE IF c \in {"daterecieved", "date"}
        THEN IF dateutil_parse(raw_record[c]).raised = ""
             THEN dateutil_parse(raw_record[c]).value ELSE None
        ELSE raw_record[c]]

\* The last operation left one row of the raw record's id and it is the row
\* the specification maps the raw record to.
UpsertedAsSpecified ==
    LET rows == store[TableOf(Last.type)]
        made == RowsWith(rows, Last.raw["id"])
    IN /\ Last.raised = ""
       /\ Cardinality(made) = 1
       /\ \A i \in made : rows[i] = SpecRow(TableOf(Last.type), Last.raw)

\* A raw record with its id and a null in a field that is not the date was
\* reconciled.
ReconciledNull ==
    /\ Updated
    /\ Last.type \in RecordTypes
    /\ HasId(Last.raw)
    /\ NullKeys(Last.raw) # {}
    /\ NullKeys(Last.raw) \cap DateKeys(Last.type) = {}

\* C11 as stated: a mapped non-date field that is null in the raw record is
\* written as the field's default, as when it is absent, for every mapped
\* field of Alert, Expert, News and Project.
C11_Original == ReconciledNull => UpsertedAsSpecified

\* What holds of the code: the default is written for the two fields read
\* with  raw_record.get(key) or "" : country_code and country_id.
C11_OrDefault ==
    (ReconciledNull /\ NullKeys(Last.raw) \subseteq {"country_code", "country_id"})
        => UpsertedAsSpecified

\* and for every other field the null reaches the database, which refuses it
C11_NullRefused ==
    (ReconciledNull /\ NullKeys(Last.raw) \cap {"country_code", "country_id"} = {})
        => (Last.raised = "IntegrityError" /\ store = before)

\* The expert of id 7 with a null name is reconciled onto its row: the
\* database refuses the null and the row keeps its earlier name.
C11_Witness ==
    /\ ReconciledNull
    /\ Len(log) = 1
    /\ Last.type = EXPERT
    /\ NullKeys(Last.raw) = {"name"}
    /\ Last.raised = "IntegrityError"
    /\ store = Populated(<<7, 8>>)
    /\ store[EXPERT_TABLE][1].name = StrValue("Flood")

\* An alert or a news record with its id was reconciled whose date is null or
\* is text that is not a date.
ReconciledBadDate ==
    /\ Updated
    /\ Last.type \in {ALERT, NEWS_ARTICLE}
    /\ HasId(Last.raw)
    /\ HasDate(Last.type, Last.raw)
    /\ NullKeys(Last.raw) \subseteq DateKeys(Last.type)
    /\ \E k \in DateKeys(Last.type) : dateutil_parse(Last.raw[k]).raised # ""

\* C12 as stated: a date of an Alert or News raw record that is not a date,
\* or is null, propagates no error: the record is upserted and its date is
\* unset.
C12_Original == ReconciledBadDate => UpsertedAsSpecified

\* What holds of the code: the parser's exception leaves the handler and
\* nothing is written.
C12_ParserRaises ==
    ReconciledBadDate =>
        (Last.raised \in {"ParserError", "TypeError"} /\ store = before)

\* The alert of id 7 with the date text "soon" is reconciled: the parser's
\* error leaves the handler and the row of the alert keeps its earlier
\* values.
C12_Witness ==
    /\ ReconciledBadDate
    /\ Len(log) = 1
    /\ Last.type = ALERT
    /\ Last.raw["daterecieved"] = StrValue(MALFORMED_DATE)
    /\ Last.raised = "ParserError"
    /\ store = Populated(<<7>>)
    /\ store[ALERT_TABLE][1].subject = StrValue("Flood")

\* C13: reconciling a raw record without 'id' raises an error and leaves
\* every table as it was, for Alert, Expert, News and Project.
C13_MissingIdIsHardError ==
    (Updated /\ Last.type \in RecordTypes /\ ~HasId(Last.raw)) =>
        (Last.raised # "" /\ store = before)

\* A project without its id is reconciled on filled tables: KeyError, and
\* the tables are as before.
C13_Witness ==
    /\ Updated
    /\ Len(log) = 1
    /\ Last.type = PROJECT
    /\ ~HasId(Last.raw)
    /\ DOMAIN Last.raw = Keys(PROJECT) \ {"id"}
    /\ Last.raised = "KeyError"
    /\ store = Populated(<<7, 8>>)

\* No row of the type and remote id of the last deletion was there.
NoSuchRecord ==
    /\ Deleted
    /\ Last.type \in RecordTypes
    /\ RowsWith(before[TableOf(Last.type)], Last.raw["id"]) = {}

SuchRecord ==
    /\ Deleted
    /\ Last.type \in RecordTypes
    /\ RowsWith(before[TableOf(Last.type)], Last.raw["id"]) # {}

-----------------------------------------------------------------------------
(* Dispatch on the resource type *)

\* The listing's dispatch point was called for a type outside PdnResourceType.
ListedUnknown ==
    /\ op = "_list_brief_resources"
    /\ result.resource_type \notin ResourceTypes

\* C16 as stated, at the title formatting of _list_brief_resources: a type
\* that is not known there gives a hard error.
C16_Original == ListedUnknown => raised # ""

\* What holds of the code at that dispatch point: the unknown type is taken
\* as a type that is not harvested; nothing is requested, nothing is listed
\* and nothing is raised.
C16_ListingIgnoresUnknown ==
    ListedUnknown => (raised = "" /\ result.list = <<>> /\ requests = <<>>)

\* and at the two other dispatch points (specification RecordSpec): an
\* unknown type raises ValueError out of PdnResourceType(...) and every table
\* is as before.
C16_ReconcileAndDeleteRaise ==
    ((Updated \/ Deleted) /\ Last.type \notin ResourceTypes) =>
        (Last.raised = "ValueError" /\ store = before)

\* _list_brief_resources is called for the type "layer" by a worker that
\* harvests everything: it returns the empty list and raises nothing.
C16_Witness ==
    /\ ListedUnknown
    /\ result.resource_type = UNKNOWN_TYPE
    /\ harvest = [t \in ResourceTypes |-> TRUE]
    /\ remote[ALERT] = MaxCount
    /\ result.list = <<>>
    /\ requests = <<>>
    /\ raised = ""

-----------------------------------------------------------------------------
(* Specification of the documents: the orchestrator gets a document from   *)
(* the remote and imports the descriptor into the catalog, again and again. *)

\* The ids of the remote's documents.
DocumentIds == 1..MaxCount

DocumentInit ==
    /\ harvest = [t \in ResourceTypes |-> TRUE]
    /\ page_size = 1
    /\ remote = [t \in ResourceTypes |-> IF t \in {ALERT, DOCUMENT} THEN MaxCount ELSE 0]
    /\ remote_up = TRUE
    /\ remote_reachable = TRUE
    /\ remote_text = Text(1)
    /\ filters = NoFilters
    /\ op = "none"
    /\ offset = 0
    /\ result = <<>>
    /\ requests = <<>>
    /\ raised = ""
    /\ geonode_resource = [d \in DocumentIds |-> None]
    /\ pages = <<>>
    /\ IdIdle
    /\ StoreIdle

\* The catalog entry the orchestrator hands over with a harvestable resource.
CatalogEntry(type, id) ==
    IF type = DOCUMENT /\ id \in DOMAIN geonode_resource
    THEN geonode_resource[id] ELSE None

\* The orchestrator calls get_resource for the resource of a type and id.
GetResource(type, id, uuid4) ==
    /\ op' = "get_resource"
    /\ LET harvestable_resource ==
               HarvestableResource(type, MakeUniqueIdentifier(type, id),
                                   CatalogEntry(type, id))
           returned == get_resource(harvestable_resource, uuid4)
           done == IF returned.raised # ""
                   THEN [raised |-> returned.raised, value |-> None,
                         reqs |-> returned.reqs]
                   ELSE Outcome(returned)
       IN /\ result' = [type |-> type, id |-> id, uuid4 |-> uuid4,
                        info |-> IF done.raised = "" THEN done.value ELSE None]
          /\ requests' = done.reqs
          /\ raised' = done.raised
    /\ UNCHANGED <<harvest, page_size, remote, remote_up, remote_reachable, offset,
                   remote_text, filters, geonode_resource, pages>>
    /\ UNCHANGED <<id_vars, store_vars>>

\* The orchestrator imports the descriptor get_resource returned: the base
\* worker creates the catalog entry of the document with the descriptor's
\* identifier, or updates the entry with it.
ImportDocument ==
    /\ op = "get_resource"
    /\ result.type = DOCUMENT
    /\ result.info # None
    /\ op' = "update_geonode_resource"
    /\ geonode_resource' =
           [geonode_resource EXCEPT ![result.id] =
               [uuid |-> uuid_str(result.info.resource_descriptor.uuid)]]
    /\ UNCHANGED <<harvest, page_size, remote, remote_up, remote_reachable, offset,
                   remote_text, filters, result, requests, raised, pages>>
    /\ UNCHANGED <<id_vars, store_vars>>

DocumentNext ==
    \/ \E type \in {ALERT, DOCUMENT} : \E id \in 1..(MaxCount + 1) :
           \E uuid4 \in 1..MaxUuid : GetResource(type, id, uuid4)
    \/ ImportDocument

DocumentSpec == DocumentInit /\ [][DocumentNext]_vars

\* get_resource has just returned the descriptor of a document.
GotDocument ==
    /\ op = "get_resource"
    /\ result.type = DOCUMENT
    /\ result.info # None

\* C17: without a catalog entry the descriptor of a document carries the
\* identifier minted in that call; with a catalog entry it carries the
\* identifier of the entry; and the identifier of a catalog entry never
\* changes, whatever is got and imported afterwards.
C17_DocumentUuidStable ==
    [][ /\ \A d \in DOMAIN geonode_resource :
               geonode_resource[d] # None => geonode_resource'[d] = geonode_resource[d]
        /\ GotDocument' =>
               LET entry == geonode_resource'[result'.id]
                   uuid_ == result'.info.resource_descriptor.uuid
               IN IF entry = None THEN uuid_ = result'.uuid4
                  ELSE uuid_str(uuid_) = entry.uuid
      ]_vars

\* Document 1 was imported with identifier 2 and is got again in a call in
\* which uuid4() would return 3: the descriptor carries 2.
C17_Witness ==
    /\ GotDocument
    /\ result.id = 1
    /\ geonode_resource[1] = [uuid |-> <<"2">>]
    /\ result.uuid4 = 3
    /\ result.info.resource_descriptor.uuid = 2

-----------------------------------------------------------------------------
(* Specification of the titles: the listing of a remote whose records hold *)
(* texts of lengths around the limit of a title.                           *)

\* The lengths of the text of the naming fields: a title made of one field
\* has that length, a title made of two has twice the length and three more.
TextLengths ==
    {0, 1, (TITLE_MAX_LENGTH - 3) \div 2, (TITLE_MAX_LENGTH - 3) \div 2 + 1,
     TITLE_MAX_LENGTH, TITLE_MAX_LENGTH + 1}

TitleInit ==
    /\ harvest = [t \in ResourceTypes |-> TRUE]
    /\ page_size \in 1..MaxPageSize
    /\ remote \in [ResourceTypes -> 0..1]
    /\ remote_up = TRUE
    /\ remote_reachable = TRUE
    /\ remote_text \in {Text(n) : n \in TextLengths}
    /\ filters = NoFilters
    /\ op = "none"
    /\ offset = 0
    /\ result = <<>>
    /\ requests = <<>>
    /\ raised = ""
    /\ geonode_resource = <<>>
    /\ pages = <<>>
    /\ IdIdle
    /\ StoreIdle

TitleNext == \E o \in 0..(EnabledTotal + 1) : ListResources(o)

TitleSpec == TitleInit /\ [][TitleNext]_vars

\* The record a listed brief resource was made of.
RecordOf(brief_resource) ==
    CHOOSE record \in {RemoteRecord(brief_resource.resource_type, i) : i \in 1..1} :
        MakeUniqueIdentifier(brief_resource.resource_type, record.id)
            = brief_resource.unique_identifier

-----------------------------------------------------------------------------
(* Specification of the filters: a worker is constructed with any start    *)
(* and end dates for the alerts and the news, and a builder is called.     *)

\* The date texts the filters are given, each with a UTC offset.
FilterTexts ==
    {"2024-01-01T00:00:00+00:00", "2024-03-04T07:06:07.5+02:00",
     "2024-06-15T22:15:00-03:00"}

DateFilterNames ==
    {"alerts_start_date_filter", "alerts_end_date_filter",
     "news_start_date_filter", "news_end_date_filter"}

FilterInit ==
    /\ harvest = [t \in ResourceTypes |-> TRUE]
    /\ page_size = 1
    /\ remote = [t \in ResourceTypes |-> 0]
    /\ remote_up = TRUE
    /\ remote_reachable = TRUE
    /\ remote_text = Text(1)
    /\ \E given \in [DateFilterNames -> {None} \cup {StrValue(t) : t \in FilterTexts}] :
           filters = [name \in DOMAIN NoFilters |->
                         IF name \in DateFilterNames THEN given[name]
                         ELSE NoFilters[name]]
    /\ op = "none"
    /\ offset = 0
    /\ result = <<>>
    /\ requests = <<>>
    /\ raised = ""
    /\ geonode_resource = <<>>
    /\ pages = <<>>
    /\ IdIdle
    /\ StoreIdle

GetAlertParams ==
    /\ op = "none"
    /\ op' = "_get_alert_params"
    /\ LET built == _get_alert_params
       IN /\ raised' = built.raised
          /\ result' = IF built.raised = "" THEN built.params ELSE <<>>
    /\ UNCHANGED <<harvest, page_size, remote, remote_up, remote_reachable, offset,
                   remote_text, filters, requests, geonode_resource, pages>>
    /\ UNCHANGED <<id_vars, store_vars>>

GetNewsArticleParams ==
    /\ op = "none"
    /\ op' = "_get_news_article_params"
    /\ LET built == _get_news_article_params
       IN /\ raised' = built.raised
          /\ result' = IF built.raised = "" THEN built.params ELSE <<>>
    /\ UNCHANGED <<harvest, page_size, remote, remote_up, remote_reachable, offset,
                   remote_text, filters, requests, geonode_resource, pages>>
    /\ UNCHANGED <<id_vars, store_vars>>

FilterNext == GetAlertParams \/ GetNewsArticleParams

FilterSpec == FilterInit /\ [][FilterNext]_vars

\* The date-time of a filter text, in UTC, to the second, with Z.
InUtc(text) ==
    CASE text = "2024-01-01T00:00:00+00:00" -> <<"2","0","2","4","-","0","1","-","0","1","T","0","0",":","0","0",":","0","0","Z">>
      [] text = "2024-03-04T07:06:07.5+02:00" -> <<"2","0","2","4","-","0","3","-","0","4","T","0","5",":","0","6",":","0","7","Z">>
      [] text = "2024-06-15T22:15:00-03:00" -> <<"2","0","2","4","-","0","6","-","1","6","T","0","1",":","1","5",":","0","0","Z">>

\* The predicate the claim gives for a date field and a start and an end.
RangePredicate(field, name, start, end) ==
    IF start = None /\ end = None THEN [k \in {} |-> <<>>]
    ELSE IF end = None THEN [k \in {field} |-> <<"g","t","e",".">> \o InUtc(start.v)]
    ELSE IF start = None THEN [k \in {field} |-> <<"l","t","e",".">> \o InUtc(end.v)]
    ELSE [k \in {"and"} |->
             <<"(">> \o name \o <<".","g","t","e",".">> \o InUtc(start.v) \o <<",">>
             \o name \o <<".","l","t","e",".">> \o InUtc(end.v) \o <<")">>]

\* C19: the Alert and the News builder give an empty predicate without start
\* and end, a single gte. inequality on the date field with only the start, a
\* single lte. inequality with only the end, and one conjunction of the gte.
\* and the lte. bound with both; the field is daterecieved for Alert and date
\* for News.
C19_DateRangePredicate ==
    /\ op = "_get_alert_params" =>
           /\ raised = ""
           /\ result = RangePredicate("daterecieved", <<"d","a","t","e","r","e","c","i","e","v","e","d">>,
                           filters.alerts_start_date_filter,
                           filters.alerts_end_date_filter)
    /\ op = "_get_news_article_params" =>
           /\ raised = ""
           /\ result = RangePredicate("date", <<"d","a","t","e">>,
                           filters.news_start_date_filter,
                           filters.news_end_date_filter)

\* The News builder with the start 2024-01-01T00:00:00+00:00 and no end
\* gives {date: gte.2024-01-01T00:00:00Z}.
C19_Witness ==
    /\ op = "_get_news_article_params"
    /\ filters.news_start_date_filter = StrValue("2024-01-01T00:00:00+00:00")
    /\ filters.news_end_date_filter = None
    /\ DOMAIN result = {"date"}
    /\ result["date"] = <<"g","t","e",".","2","0","2","4","-","0","1","-","0","1","T","0","0",":","0","0",":","0","0","Z">>

-----------------------------------------------------------------------------
(* Specification of the outages: the remote holds records of every type    *)
(* but does not answer (no connection is made in time) or answers with an  *)
(* error status, and the worker's reading methods are called.              *)

OutageInit ==
    /\ harvest \in [ResourceTypes -> BOOLEAN]
    /\ page_size \in 1..MaxPageSize
    /\ remote = [t \in ResourceTypes |-> MaxCount]
    /\ remote_up \in BOOLEAN
    /\ remote_reachable \in BOOLEAN
    /\ ~(remote_up /\ remote_reachable)
    /\ remote_text = Text(1)
    /\ filters = NoFilters
    /\ op = "none"
    /\ offset = 0
    /\ result = <<>>
    /\ requests = <<>>
    /\ raised = ""
    /\ geonode_resource = <<>>
    /\ pages = <<>>
    /\ IdIdle
    /\ StoreIdle

OutageNext ==
    \/ \E o \in 0..(EnabledTotal + 1) : ListResources(o)
    \/ GetNumAvailableResources
    \/ \E type \in ResourceTypes : \E id \in 1..MaxCount :
           op = "none" /\ GetResource(type, id, 1)

OutageSpec == OutageInit /\ [][OutageNext]_vars

\* A call was made and the remote failed every request of it.
CalledInOutage == op # "none" /\ ~(remote_up /\ remote_reachable)

\* The call returned what an empty remote gives, asking each thing once.
ReturnedNothing ==
    /\ raised = ""
    /\ op = "list_resources" => result = <<>>
    /\ op = "get_num_available_resources" => result = 0
    /\ op = "get_resource" => result.info = None
    /\ \A i, j \in 1..Len(requests) : requests[i] = requests[j] => i = j

\* C20 as stated: a transport or availability failure of the remote never
\* reaches the caller as an exception; the count is 0, the page is empty, the
\* record is absent, the three methods return normally, nothing is retried.
C20_Original == CalledInOutage => ReturnedNothing

\* What holds of the code: the claim for a remote that answers, with an
\* error status.
C20_ErrorStatus == (CalledInOutage /\ remote_reachable) => ReturnedNothing

\* and with no connection the exception of the first request leaves the call
C20_NoConnection ==
    (CalledInOutage /\ ~remote_reachable) =>
        IF requests = <<>> THEN ReturnedNothing
        ELSE raised = "ConnectionError" /\ Len(requests) = 1

\* get_num_available_resources is called on a worker that harvests every
\* type while no connection to the remote can be made: ConnectionError.
C20_Witness ==
    /\ op = "get_num_available_resources"
    /\ ~remote_reachable
    /\ harvest = [t \in ResourceTypes |-> TRUE]
    /\ raised = "ConnectionError"
    /\ requests = <<CountRequest(ALERT)>>

-----------------------------------------------------------------------------
(* The requests of one list_resources call *)

\* The page requests of the last call, in the order they were issued.
PageRequests == SelectSeq(requests, LAMBDA request : request.kind = "page")

\* The items of the collection of a type at the 0-based positions lo .. hi
\* that the collection has.
ItemsAt(type, lo, hi) ==
    [j \in 1..Max(Min(hi, remote[type] - 1) - lo + 1, 0) |-> RemoteRecord(type, lo + j)]

LocatedType(o) ==
    LET reaching == {i \in 1..Len(PdnResourceType) :
                        LET t == PdnResourceType[i]
                        IN harvest[t] /\ o < EnabledBefore(t) + remote[t]}
    IN IF reaching = {} THEN PROJECT
       ELSE PdnResourceType[CHOOSE i \in reaching : \A j \in reaching : i <= j]

\* C22: within one list_resources call at most one page request carries a
\* nonzero local offset, and it is the request to the type the boundary math
\* locates; every page request to a later (top-up) type has local offset 0.
C22_OnlyFirstQueryHasOffset ==
    Listed =>
        /\ PageRequests # <<>> =>
               /\ PageRequests[1].type = LocatedType(offset)
               /\ PageRequests[1].offset = offset - EnabledBefore(LocatedType(offset))
        /\ \A i \in 2..Len(PageRequests) : PageRequests[i].offset = 0
        /\ Cardinality({i \in 1..Len(PageRequests) : PageRequests[i].offset # 0}) <= 1

\* The second of two news articles is listed and the page is topped up with
\* projects: the news are read from local offset 1, the projects from 0.
C22_Witness ==
    /\ Listed
    /\ remote[NEWS_ARTICLE] = 2 /\ harvest[NEWS_ARTICLE]
    /\ harvest[PROJECT] /\ remote[PROJECT] > 0
    /\ page_size = 2
    /\ PageRequests = <<PageRequest(NEWS_ARTICLE, 1), PageRequest(PROJECT, 0)>>
    /\ Len(result) = 2

\* The number of records the first n page requests of the last call were
\* answered with.
Accumulated(n) ==
    SumSeq([i \in 1..n |->
               Len(get_paginated_resources(PageRequests[i].type, PageRequests[i].offset))])

\* C23: within one list_resources call the page requests go to types in
\* canonical order, starting at the located type; a request to a later type
\* is issued only while the records gathered so far are fewer than page_size,
\* so none is issued once they number page_size; and while they are fewer,
\* every later harvested type is asked in turn.
C23_TopUpInOrderWhileShort ==
    Listed =>
        /\ \A i, j \in 1..Len(PageRequests) :
               i < j => TypeIndex(PageRequests[i].type) < TypeIndex(PageRequests[j].type)
        /\ \A i \in 1..Len(PageRequests) :
               TypeIndex(PageRequests[i].type) >= TypeIndex(LocatedType(offset))
        /\ \A i \in 2..Len(PageRequests) : Accumulated(i - 1) < page_size
        /\ \A t \in ResourceTypes :
               (/\ harvest[t]
                /\ TypeIndex(t) >= TypeIndex(LocatedType(offset))
                /\ \A i \in 1..Len(PageRequests) : PageRequests[i].type # t)
               => \E n \in 1..Len(PageRequests) :
                      /\ TypeIndex(PageRequests[n].type) < TypeIndex(t)
                      /\ Accumulated(n) >= page_size

\* The two experts fill a page of two: the news and the projects, which the
\* remote holds and the worker harvests, are not asked.
C23_Witness ==
    /\ Listed
    /\ page_size = 2
    /\ harvest[EXPERT] /\ remote[EXPERT] = 2
    /\ harvest[NEWS_ARTICLE] /\ remote[NEWS_ARTICLE] > 0
    /\ harvest[PROJECT] /\ remote[PROJECT] > 0
    /\ PageRequests = <<PageRequest(EXPERT, 0)>>
    /\ Len(result) = 2

-----------------------------------------------------------------------------
(* Specification of paging: against a remote that does not change, a       *)
(* caller asks list_resources for the page at offset 0, then at the offset *)
(* one page_size further, and stops at the first empty page.               *)

PagingInit ==
    /\ harvest \in [ResourceTypes -> BOOLEAN]
    /\ page_size \in 1..MaxPageSize
    /\ remote \in [ResourceTypes -> 0..MaxCount]
    /\ \A t \in ResourceTypes : ~harvest[t] => remote[t] = MaxCount
    /\ remote_up = TRUE
    /\ remote_reachable = TRUE
    /\ remote_text = Text(1)
    /\ filters = NoFilters
    /\ op = "none"
    /\ offset = 0
    /\ result = <<>>
    /\ requests = <<>>
    /\ raised = ""
    /\ geonode_resource = <<>>
    /\ pages = <<>>
    /\ IdIdle
    /\ StoreIdle

\* The caller asks for its next page.  A caller that is never given an empty
\* page gives up after one page more than the remote has records.
NextPage ==
    /\ IF pages = <<>> THEN TRUE ELSE pages[Len(pages)] # <<>>
    /\ Len(pages) <= EnabledTotal
    /\ op' = "list_resources"
    /\ offset' = Len(pages) * page_size
    /\ \E done \in {Outcome(list_resources(Len(pages) * page_size))} :
           /\ result' = done.value
           /\ requests' = done.reqs
           /\ raised' = done.raised
           /\ pages' = Append(pages, done.value)
    /\ UNCHANGED <<harvest, page_size, remote, remote_up, remote_reachable,
                   remote_text, filters, geonode_resource>>
    /\ UNCHANGED <<id_vars, store_vars>>

PagingNext == NextPage

PagingSpec == PagingInit /\ [][PagingNext]_vars

\* The caller has been given an empty page.
PagedToTheEnd == pages # <<>> /\ pages[Len(pages)] = <<>>

\* The least number of pages of a size that hold n records.
CeilDiv(n, size) == (n + size - 1) \div size

-----------------------------------------------------------------------------
(* Reconciliation and the records of other types and ids (RecordSpec) *)

\* The rows of a table whose remote id is not the given one, in order.
RowsOfOthers(rows, remote_id) ==
    SelectSeq(rows, LAMBDA row : row.remote_id # remote_id)

C25_Coexist ==
    /\ Updated
    /\ Len(log) = 2
    /\ Previous.type = ALERT /\ Last.type = NEWS_ARTICLE
    /\ Len(store[ALERT_TABLE]) = 1 /\ store[ALERT_TABLE][1].remote_id = IntValue(7)
    /\ Len(store[NEWS_TABLE]) = 1 /\ store[NEWS_TABLE][1].remote_id = IntValue(7)

-----------------------------------------------------------------------------
(* Specification of concurrent workers: several workers reconcile and      *)
(* delete the same harvestable resource, their steps on the store          *)
(* interleaved.  update_or_create on the unique remote_id is one step of   *)
(* the store; finalize_resource_deletion is two, objects.get and then      *)
(* record.delete() of the record it got.                                   *)

WorkerIds == 1..MaxWorkers

\* The raw records of the target (remote id 7) a worker may have harvested:
\* two versions of the complete record and the record with nothing but its id.
ConcurrentRawRecords(type) ==
    {FullRecord(type, 7, 1), FullRecord(type, 7, 2),
     [k \in {"id"} |-> IntValue(7)]}

ConcurrentInit ==
    /\ \E type \in RecordTypes :
           target = HarvestableResource(type, MakeUniqueIdentifier(type, 7), None)
    /\ store \in {Populated(<<>>), Populated(<<7>>)}
    /\ log = <<>>
    /\ before = store
    /\ workers = [w \in WorkerIds |-> [pc |-> "idle", record |-> 0, jobs |-> 0]]
    /\ pks = [of |-> [table \in Tables |-> [i \in 1..Len(store[table]) |-> i]],
              inserted |-> [table \in Tables |-> Len(store[table])]]
    /\ ListIdle
    /\ IdIdle

\* The jobs the workers have started.
JobsStarted == SumSeq([w \in WorkerIds |-> workers[w].jobs])

\* A worker reconciles a raw record of the target: update_geonode_resource,
\* whose only access to the store is update_or_create.
Reconcile(w, raw_record) ==
    /\ workers[w].pc = "idle"
    /\ JobsStarted < MaxJobs
    /\ LET type == target.remote_resource_type
           table == TableOf(type)
           done == update_geonode_resource(store, type, raw_record)
           made == Len(done.tables[table]) - Len(store[table])
       IN /\ store' = done.tables
          /\ pks' = IF made > 0
                    THEN [of |-> [pks.of EXCEPT ![table] =
                                     Append(@, pks.inserted[table] + 1)],
                          inserted |-> [pks.inserted EXCEPT ![table] = @ + 1]]
                    ELSE pks
    /\ workers' = [workers EXCEPT ![w].jobs = @ + 1]
    /\ UNCHANGED <<log, before, target>>
    /\ UNCHANGED <<list_vars, id_vars>>

\* A worker starts finalize_resource_deletion of the target:
\* record_class.objects.get(remote_id=remote_id); DoesNotExist ends the call.
DeleteGet(w) ==
    /\ workers[w].pc = "idle"
    /\ JobsStarted < MaxJobs
    /\ LET table == TableOf(target.remote_resource_type)
           remote_id == finalize_resource_deletion_remote_id(target.unique_identifier)
           found == RowsWith(store[table], IntValue(remote_id.value))
       IN /\ remote_id.ok
          /\ Cardinality(found) <= 1
          /\ workers' = [workers EXCEPT ![w] =
                 IF found = {}
                 THEN [pc |-> "idle", record |-> 0, jobs |-> @.jobs + 1]
                 ELSE [pc |-> "delete",
                       record |-> pks.of[table][CHOOSE i \in found : TRUE],
                       jobs |-> @.jobs + 1]]
    /\ UNCHANGED <<store, log, before, target, pks>>
    /\ UNCHANGED <<list_vars, id_vars>>

\* The worker goes on with record.delete(): the row with the primary key of
\* the record it got is deleted, if it is still there.
DeleteRecord(w) ==
    /\ workers[w].pc = "delete"
    /\ LET table == TableOf(target.remote_resource_type)
           found == {i \in 1..Len(pks.of[table]) : pks.of[table][i] = workers[w].record}
       IN /\ store' = [store EXCEPT ![table] = Without(@, found)]
          /\ pks' = [pks EXCEPT !.of[table] = Without(@, found)]
    /\ workers' = [workers EXCEPT ![w].pc = "idle"]
    /\ UNCHANGED <<log, before, target>>
    /\ UNCHANGED <<list_vars, id_vars>>

ConcurrentNext ==
    \/ \E w \in WorkerIds :
           \E raw_record \in ConcurrentRawRecords(target.remote_resource_type) :
               Reconcile(w, raw_record)
    \/ \E w \in WorkerIds : DeleteGet(w)
    \/ \E w \in WorkerIds : DeleteRecord(w)

ConcurrentSpec == ConcurrentInit /\ [][ConcurrentNext]_vars

\* The rows of the target in its table.
TargetRows ==
    LET rows == store[TableOf(target.remote_resource_type)]
    IN [i \in RowsWith(rows, IntValue(7)) |-> rows[i]]

\* C26: with update_or_create and the deletion of a fetched record each one
\* step of the store, every interleaving of the reconciliations and the
\* deletions of concurrent workers on one (type, remote id) leaves at most
\* one local record of that type and remote id, and the fields of a record
\* that is there are all those of one single reconciled raw record; the
\* records of the other types are as they were.
C26_AtMostOneUnmixedRecord ==
    target # <<>> =>
        LET type == target.remote_resource_type
            table == TableOf(type)
        IN /\ Cardinality(DOMAIN TargetRows) <= 1
           /\ \A i \in DOMAIN TargetRows :
                  \E raw_record \in ConcurrentRawRecords(type) :
                      TargetRows[i] = MappedRow(table, raw_record)
           /\ \A other \in Tables \ {table} : store[other] = before[other]

\* Worker 1 has got the expert's record (primary key 1) and not yet deleted
\* it; meanwhile the record was deleted by worker 2 and created anew from
\* the second version (primary key 2).
C26_Witness ==
    /\ target # <<>>
    /\ target.remote_resource_type = EXPERT
    /\ workers[1].pc = "delete" /\ workers[1].record = 1
    /\ workers[2].pc = "idle" /\ workers[2].jobs = 2
    /\ pks.of[EXPERT_TABLE] = <<2>>
    /\ store[EXPERT_TABLE] = <<MappedRow(EXPERT_TABLE, FullRecord(EXPERT, 7, 2))>>

-----------------------------------------------------------------------------
(* Specification of the filtered listing: a worker is constructed with any *)
(* flags and any filters, and its listing methods are called.  The remote  *)
(* holds, for each type, the records that pass the type's params.          *)

\* The values a filter option is given besides None.
FilterChoices(name) ==
    CASE name = "alerts_start_date_filter" -> {StrValue("2024-01-01T00:00:00+00:00")}
      [] name = "alerts_end_date_filter" -> {StrValue("2024-06-15T22:15:00-03:00")}
      [] name = "news_start_date_filter" -> {StrValue("2024-03-04T07:06:07.5+02:00")}
      [] name = "news_end_date_filter" -> {}
      [] name = "document_publication_day_filter" -> {}
      [] name = "document_publication_month_filter" -> {IntValue(6)}
      [] name = "document_publication_year_filter" -> {IntValue(2024)}
      [] name = "project_active_filter" -> {BoolValue(TRUE), BoolValue(FALSE)}

FilteredInit ==
    /\ harvest \in [ResourceTypes -> BOOLEAN]
    /\ page_size = MaxPageSize
    /\ remote = [t \in ResourceTypes |-> 1]
    /\ remote_up = TRUE
    /\ remote_reachable = TRUE
    /\ remote_text = Text(1)
    /\ filters \in
           [alerts_start_date_filter : {None} \cup FilterChoices("alerts_start_date_filter"),
            alerts_end_date_filter : {None} \cup FilterChoices("alerts_end_date_filter"),
            news_start_date_filter : {None} \cup FilterChoices("news_start_date_filter"),
            news_end_date_filter : {None} \cup FilterChoices("news_end_date_filter"),
            document_publication_day_filter :
                {None} \cup FilterChoices("document_publication_day_filter"),
            document_publication_month_filter :
                {None} \cup FilterChoices("document_publication_month_filter"),
            document_publication_year_filter :
                {None} \cup FilterChoices("document_publication_year_filter"),
            project_active_filter : {None} \cup FilterChoices("project_active_filter")]
    /\ op = "none"
    /\ offset = 0
    /\ result = <<>>
    /\ requests = <<>>
    /\ raised = ""
    /\ geonode_resource = <<>>
    /\ pages = <<>>
    /\ IdIdle
    /\ StoreIdle

FilteredNext ==
    \/ \E o \in {0, 1, EnabledTotal} : ListResources(o)
    \/ GetNumAvailableResources

FilteredSpec == FilteredInit /\ [][FilteredNext]_vars

\* A listing method was called.
ListingCalled == op \in {"list_resources", "get_num_available_resources"}

\* The params the worker passes to the client with a request: those of the
\* count query for a count request, those of the page query for a page
\* request.
RequestParams(request) ==
    IF request.kind = "count" THEN CountParams(request.type).params
    ELSE PageParams(request.type).params

-----------------------------------------------------------------------------
(* No request for a type that is not harvested *)

\* C28: neither get_num_available_resources nor list_resources, at any
\* offset, issues a request (a count query or a page query) for a type whose
\* harvest flag is off.
C28_NoRequestForDisabledType ==
    ListingCalled =>
        \A i \in 1..Len(requests) :
           /\ requests[i].kind \in {"count", "page"}
           /\ harvest[requests[i].type]

\* A page that starts past the first record and runs over a type that is
\* not harvested although the remote holds records of it: the count queries
\* and the page queries skip the type.
C28_Witness ==
    /\ op = "list_resources" /\ offset > 0
    /\ harvest[ALERT] /\ ~harvest[DOCUMENT] /\ harvest[EXPERT]
    /\ remote[DOCUMENT] > 0
    /\ \E i, j \in 1..Len(requests) :
           /\ requests[i] = CountRequest(ALERT)
           /\ requests[j] = PageRequest(EXPERT, 0)
    /\ \E j \in 1..Len(result) : result[j].resource_type = EXPERT

\* The count of a worker that harvests some types and not others, against
\* a remote that holds records of all of them.
C28_CountWitness ==
    /\ op = "get_num_available_resources"
    /\ requests # <<>>
    /\ \E t \in ResourceTypes : ~harvest[t] /\ remote[t] > 0

-----------------------------------------------------------------------------
(* Specification of a worker built with a page size that is no page size:  *)
(* neither PdnHarvesterWorker.__init__ nor PostgRestClient.__init__ looks  *)
(* at page_size, so the worker exists with 0 or a negative number, and its *)
(* listing methods are called.                                             *)

MisconfiguredInit ==
    /\ harvest \in [ResourceTypes -> BOOLEAN]
    /\ page_size \in (0 - MaxPageSize)..0
    /\ remote \in [ResourceTypes -> {0, MaxCount}]
    /\ remote_up = TRUE
    /\ remote_reachable = TRUE
    /\ remote_text = Text(1)
    /\ filters = NoFilters
    /\ op = "none"
    /\ offset = 0
    /\ result = <<>>
    /\ requests = <<>>
    /\ raised = ""
    /\ geonode_resource = <<>>
    /\ pages = <<>>
    /\ IdIdle
    /\ StoreIdle

MisconfiguredNext ==
    \/ \E o \in 0..(EnabledTotal + 1) : ListResources(o)
    \/ GetNumAvailableResources

MisconfiguredSpec == MisconfiguredInit /\ [][MisconfiguredNext]_vars

\* list_resources was called on a worker whose page size is 0 or less.
ListedMisconfigured == op = "list_resources" /\ page_size <= 0

\* C29: a page size of 0 or less is rejected as a configuration error, when
\* the worker is constructed or at the latest when list_resources is
\* called: no call of list_resources on such a worker returns a page.
C29_Original ==
    ListedMisconfigured => raised # ""

\* What the code does instead: the range of every page request ends before
\* it starts (offset + page_size - 1 < offset), the service cannot satisfy
\* it, the client turns the error status into an empty list, no list is
\* shorter than the page size, and the call returns an empty page without
\* raising anything.
C29_EmptyPageReturned ==
    ListedMisconfigured =>
        /\ raised = ""
        /\ result = <<>>
        /\ \A i \in 1..Len(PageRequests) :
              RangeHeader(PageRequests[i].offset).last
                  < RangeHeader(PageRequests[i].offset).first

\* The remote holds alerts, the worker harvests them and was built with
\* page size 0: list_resources(0) asks for the range 0--1 of the alerts and
\* returns an empty page.
C29_Witness ==
    /\ ListedMisconfigured
    /\ page_size = 0 /\ offset = 0
    /\ harvest[ALERT] /\ remote[ALERT] > 0
    /\ PageRequests = <<PageRequest(ALERT, 0)>>
    /\ RangeHeader(0) = [first |-> 0, last |-> 0 - 1]
    /\ raised = ""
    /\ result = <<>>

-----------------------------------------------------------------------------
(* Specification of the harvest of single resources: the tables hold       *)
(* records, the orchestrator gets a resource of any type from the remote   *)
(* and, for a document, reconciles what it got.                            *)

HarvestInit ==
    /\ harvest = [t \in ResourceTypes |-> TRUE]
    /\ page_size = 1
    /\ remote = [t \in ResourceTypes |-> MaxCount]
    /\ remote_up \in BOOLEAN
    /\ remote_reachable = TRUE
    /\ remote_text = Text(1)
    /\ filters = NoFilters
    /\ op = "none"
    /\ offset = 0
    /\ result = <<>>
    /\ requests = <<>>
    /\ raised = ""
    /\ geonode_resource = [d \in DocumentIds |-> None]
    /\ pages = <<>>
    /\ IdIdle
    /\ store \in {Populated(<<>>), Populated(<<7>>)}
    /\ log = <<>>
    /\ before = store
    /\ ConcurrentIdle

\* The orchestrator reconciles the document get_resource returned:
\* update_geonode_resource with the HarvestedResourceInfo of the document.
\* The handler is the base worker's, which creates or updates the catalog
\* entry of the document with the descriptor's identifier.
ReconcileDocument ==
    /\ Len(log) < MaxOps
    /\ op = "get_resource"
    /\ result.type = DOCUMENT
    /\ result.info # None
    /\ op' = "update_geonode_resource"
    /\ LET done == update_geonode_resource(
                       store, DOCUMENT, result.info.additional_information)
       IN /\ store' = done.tables
          /\ log' = Append(log, [op |-> "update_geonode_resource", type |-> DOCUMENT,
                                 raw |-> result.info.additional_information,
                                 raised |-> done.raised])
    /\ before' = store
    /\ geonode_resource' =
           [geonode_resource EXCEPT ![result.id] =
               [uuid |-> uuid_str(result.info.resource_descriptor.uuid)]]
    /\ UNCHANGED <<harvest, page_size, remote, remote_up, remote_reachable, offset,
                   remote_text, filters, result, requests, raised, pages>>
    /\ UNCHANGED <<target, workers, pks>>
    /\ UNCHANGED id_vars

HarvestNext ==
    \/ \E type \in ResourceTypes : \E id \in 1..(MaxCount + 1) :
           GetResource(type, id, 1)
    \/ ReconcileDocument

HarvestSpec == HarvestInit /\ [][HarvestNext]_vars

\* The remote's answer to the single-record fetch of the last get_resource.
Fetched == _api_client_get_resource(result.type, PyStr(result.id))

C30_AbsentWitness ==
    /\ op = "get_resource"
    /\ Fetched = None
    /\ result.info = None
    /\ store = Populated(<<7>>)

\* A document is got: a descriptor and no raw record.
C30_DocumentWitness ==
    /\ GotDocument
    /\ result.info.resource_descriptor # None
    /\ result.info.additional_information = None
    /\ store = Populated(<<7>>)

====
